---- MODULE Spec2Model ----
(***************************************************************************)
(* The gambling ledger of fenrir-sabot: the combination space built by     *)
(* DbHandler.setup_slot_machine_values, the construction and the matching  *)
(* of the paytable of models/paytable.py, and the operations of DbHandler  *)
(* (process_slot_machine, get_data, update_user_data, get_user_rank,       *)
(* get_leaderboard) over the two sqlite tables Gambler_Tally and           *)
(* Gambler_Ledger, with the handlers that call them (the message handler   *)
(* of handlers/messages.py, the commands of handlers/commands.py) and the  *)
(* play of main.py, which has a process_slot_machine of its own.           *)
(*                                                                         *)
(* Spec          the calls of process_slot_machine alone, on every index   *)
(*               and failure point                                         *)
(* SpecAccounts  every operation of DbHandler on the accounts, and the     *)
(*               message handler and the stat command as whole steps       *)
(* SpecMain      the plays of main.py and its message handler              *)
(* SpecStart     DbHandler.__init__ on stored databases, and restarts      *)
(* SpecConcurrent  plays of two processes on one database file, statement  *)
(*               by statement, with the write lock of the file             *)
(* SpecRender    the text of the paytable command                          *)
(* SpecBoard     the rank and the leaderboard over tables of accounts      *)
(* SpecLeaderboard  the leaderboard command over stored tables             *)
(* SpecCombo     the lookups of the combination space                      *)
(* SpecPaytable  the resolution of a multiplier under drawn paytables      *)
(* SpecTokens    the loading and the matching of paytable tokens           *)
(* SpecConfig    the construction of the paytable from the configuration   *)
(***************************************************************************)
EXTENDS Integers, Sequences, FiniteSets, TLC

VARIABLES
    config,     \* the Config object: dev_mode, bet_cents, paytable
    accounts,   \* table Gambler_Tally: id -> row, or NoRow
    ledger,     \* table Gambler_Ledger: the rows in trans_id order
    last,       \* the last call of an operation or a handler and how it ended
    call,       \* the last call of a lookup of the combination space / paytable
    store,      \* the database file: its tables, the username column, the
                \* version marker, and whether a DbHandler is constructed on it
    inflight    \* process -> the call of process_slot_machine it is in and
                \* the transaction state of its connection

vars == <<config, accounts, ledger, last, call, store, inflight>>

-----------------------------------------------------------------------------
(* Bounds of the model *)

\* the rows of the ledger: a play commits only while the ledger has fewer
\* rows (the bound of the model on a table that the code lets grow)
MaxPlays == 2
\* entries of a paytable drawn as an input of the lookups
MaxEntries == 2
\* accounts of the tables the rank and the leaderboard are read from
MaxAccounts == 3

-----------------------------------------------------------------------------
(* models/paytable.py: SlotEmoji *)

\* the members of the enum in definition order
SlotEmojiMembers == <<"SEVEN", "BAR", "LEMON", "GRAPE", "ANY">>

\* member -> value; the emoji strings are written as short ASCII stand-ins,
\* ANY is the empty string as in the source
SlotEmojiValue ==
    [m \in {"SEVEN", "BAR", "LEMON", "GRAPE", "ANY"} |->
        CASE m = "SEVEN" -> "e7"
          [] m = "BAR"   -> "eBar"
          [] m = "LEMON" -> "eLemon"
          [] m = "GRAPE" -> "eGrape"
          [] m = "ANY"   -> ""]

\* SlotEmoji.from_value: the first member whose value is the token, else ANY
RECURSIVE FromValueLoop(_, _)
FromValueLoop(value, k) ==
    IF k > Len(SlotEmojiMembers) THEN "ANY"
    ELSE IF SlotEmojiValue[SlotEmojiMembers[k]] = value THEN SlotEmojiMembers[k]
    ELSE FromValueLoop(value, k + 1)

\* mutant of from_value: a token that is no member's value loads as the first
\* member
from_valueFirstMember(value) ==
    IF \E k \in 1..Len(SlotEmojiMembers) : SlotEmojiValue[SlotEmojiMembers[k]] = value
    THEN FromValueLoop(value, 1)
    ELSE SlotEmojiMembers[1]

from_value(value) == FromValueLoop(value, 1)


-----------------------------------------------------------------------------
(* models/paytable.py: PaytableEntry and Paytable *)

\* PaytableEntry.__init__: every token of the combo goes through from_value
PaytableEntry(combo, payout_mult) ==
    [combo |-> [i \in 1..Len(combo) |-> from_value(combo[i])],
     payout_mult |-> payout_mult]

\* PaytableEntry.matches: the loop over the positions of the entry's combo
RECURSIVE MatchesLoop(_, _, _)
MatchesLoop(entry, slot_result, i) ==
    IF i > Len(entry.combo) THEN TRUE
    ELSE IF entry.combo[i] # "ANY"
            /\ SlotEmojiValue[entry.combo[i]] # slot_result[i] THEN FALSE
    ELSE MatchesLoop(entry, slot_result, i + 1)

matches(entry, slot_result) ==
    IF Len(entry.combo) # Len(slot_result) THEN FALSE
    ELSE MatchesLoop(entry, slot_result, 1)

\* the two forms in which a paytable definition arrives: a list of entry
\* records, or a str holding the JSON text of such a list
PyList(items) == [type |-> "list", items |-> items]

\* mutant of json_dumps: the text of an empty list, whatever the data
json_dumpsEmpty(data) == [type |-> "str", text |-> <<>>]

\* json.dumps and json.loads on a list of entry records; a str of JSON text is
\* written as the list it denotes, tagged as a str
json_dumps(data) == [type |-> "str", text |-> data]
json_loads(s) == s.text

\* the last two statements of Paytable._load_from_config
LoadEntries(paytable_data) ==
    [error |-> "none",
     serialized |-> json_dumps(paytable_data),
     entries |-> [i \in 1..Len(paytable_data) |->
                     PaytableEntry(paytable_data[i].combo,
                                   paytable_data[i].payout_mult)]]

\* Paytable.__init__ and _load_from_config: only a definition that is a list is
\* checked for emptiness (ValueError); a str goes through json.loads unchecked
Paytable(paytable_config) ==
    IF paytable_config.type = "list"
    THEN IF Len(paytable_config.items) = 0
         THEN [error |-> "ValueError", serialized |-> json_dumps(<<>>),
               entries |-> <<>>]
         ELSE LoadEntries(paytable_config.items)
    ELSE LoadEntries(json_loads(paytable_config))

-----------------------------------------------------------------------------
(* db/db_handler.py: DbHandler.setup_slot_machine_values *)

\* mutant of symbols: a symbol is listed twice
symbolsRepeated == <<"bar", "grape", "lemon", "lemon">>

symbols == <<"bar", "grape", "lemon", "seven">>

\* combo_key = f"{first}_{second}_{third}"
combo_key(first, second, third) == first \o "_" \o second \o "_" \o third

\* mutant of ThirdLoop: the second and third symbol are stored swapped
ThirdLoopSwapped(first, second) ==
    [k \in 1..Len(symbols) |-> <<first, symbols[k], second>>]

\* for third in symbols: the triplets of one run of the innermost loop, in order
ThirdLoop(first, second) ==
    [k \in 1..Len(symbols) |-> <<first, second, symbols[k]>>]

\* for second in symbols, from position j on
RECURSIVE SecondLoop(_, _)
SecondLoop(first, j) ==
    IF j > Len(symbols) THEN <<>>
    ELSE ThirdLoop(first, symbols[j]) \o SecondLoop(first, j + 1)

\* for first in symbols, from position i on
RECURSIVE FirstLoop(_)
FirstLoop(i) ==
    IF i > Len(symbols) THEN <<>>
    ELSE SecondLoop(symbols[i], 1) \o FirstLoop(i + 1)

\* the triplets in the order in which the loop body runs on them
Visited == FirstLoop(1)

\* the empty dict
EmptyDict == [k \in {} |-> 0]

\* self.SLOT_MACHINE_VALUE[index] = (first, second, third): index starts at 1
\* and is incremented after every run of the body
SLOT_MACHINE_VALUE == [index \in 1..Len(Visited) |-> Visited[index]]

\* self.COMBINATIONS[combo_key] = index: a later run of the body overwrites the
\* index an earlier run stored under the same key
COMBINATIONS ==
    [key \in {combo_key(SLOT_MACHINE_VALUE[index][1], SLOT_MACHINE_VALUE[index][2],
                        SLOT_MACHINE_VALUE[index][3]) :
                 index \in DOMAIN SLOT_MACHINE_VALUE} |->
        CHOOSE index \in DOMAIN SLOT_MACHINE_VALUE :
            /\ combo_key(SLOT_MACHINE_VALUE[index][1], SLOT_MACHINE_VALUE[index][2],
                         SLOT_MACHINE_VALUE[index][3]) = key
            /\ \A other \in DOMAIN SLOT_MACHINE_VALUE :
                  combo_key(SLOT_MACHINE_VALUE[other][1], SLOT_MACHINE_VALUE[other][2],
                            SLOT_MACHINE_VALUE[other][3]) = key => other <= index]

TRIPLE_SEVEN == COMBINATIONS["seven_seven_seven"]
TRIPLE_BAR == COMBINATIONS["bar_bar_bar"]
TRIPLE_LEMON == COMBINATIONS["lemon_lemon_lemon"]
TRIPLE_GRAPE == COMBINATIONS["grape_grape_grape"]

\* the positions of symbols that are not "bar", in order
NotBar == SelectSeq(symbols, LAMBDA symbol : symbol # "bar")

\* mutant of DOUBLE_BAR_COMBOS: the third placement is missing
DOUBLE_BAR_TwoPlacements ==
    [n \in 1..Len(NotBar) |-> COMBINATIONS[combo_key("bar", "bar", NotBar[n])]]
    \o [n \in 1..Len(NotBar) |-> COMBINATIONS[combo_key("bar", NotBar[n], "bar")]]

\* the three list comprehensions, concatenated
DOUBLE_BAR_COMBOS ==
    [n \in 1..Len(NotBar) |-> COMBINATIONS[combo_key("bar", "bar", NotBar[n])]]
    \o [n \in 1..Len(NotBar) |-> COMBINATIONS[combo_key("bar", NotBar[n], "bar")]]
    \o [n \in 1..Len(NotBar) |-> COMBINATIONS[combo_key(NotBar[n], "bar", "bar")]]

\* value in self.DOUBLE_BAR_COMBOS
InDoubleBar(value) == \E n \in 1..Len(DOUBLE_BAR_COMBOS) : DOUBLE_BAR_COMBOS[n] = value

\* str.capitalize and str.upper on the four symbol names
capitalize(symbol) ==
    CASE symbol = "bar" -> "Bar"
      [] symbol = "grape" -> "Grape"
      [] symbol = "lemon" -> "Lemon"
      [] symbol = "seven" -> "Seven"

upper(symbol) ==
    CASE symbol = "bar" -> "BAR"
      [] symbol = "grape" -> "GRAPE"
      [] symbol = "lemon" -> "LEMON"
      [] symbol = "seven" -> "SEVEN"

\* DbHandler.get_combo_name: the name, or the KeyError of the lookup in the
\* else branch
get_combo_name(value) ==
    IF value = TRIPLE_SEVEN THEN [error |-> "none", name |-> "Triple Seven"]
    ELSE IF value = TRIPLE_BAR THEN [error |-> "none", name |-> "Triple Bar"]
    ELSE IF value = TRIPLE_LEMON THEN [error |-> "none", name |-> "Triple Lemon"]
    ELSE IF value = TRIPLE_GRAPE THEN [error |-> "none", name |-> "Triple Grape"]
    ELSE IF InDoubleBar(value) THEN [error |-> "none", name |-> "Double Bar"]
    ELSE IF value \notin DOMAIN SLOT_MACHINE_VALUE
         THEN [error |-> "KeyError", name |-> ""]
    ELSE LET s == SLOT_MACHINE_VALUE[value]
         IN  [error |-> "none",
              name |-> capitalize(s[1]) \o "-" \o capitalize(s[2])
                          \o "-" \o capitalize(s[3])]

\* slot_emojis = tuple(SlotEmoji[symbol.upper()].value for symbol in slot_result)
slot_emojis(slot_result) ==
    [i \in 1..Len(slot_result) |-> SlotEmojiValue[upper(slot_result[i])]]

\* mutant of PayoutLoop: no break, the last matching entry wins
RECURSIVE PayoutLoopNoBreak(_, _, _)
PayoutLoopNoBreak(entries, emojis, k) ==
    IF k > Len(entries) THEN 0
    ELSE LET later == PayoutLoopNoBreak(entries, emojis, k + 1)
         IN  IF later # 0 \/ ~matches(entries[k], emojis) THEN later
             ELSE entries[k].payout_mult

\* the payout loop of process_slot_machine: the first matching entry wins
RECURSIVE PayoutLoop(_, _, _)
PayoutLoop(entries, emojis, k) ==
    IF k > Len(entries) THEN 0
    ELSE IF matches(entries[k], emojis) THEN entries[k].payout_mult
    ELSE PayoutLoop(entries, emojis, k + 1)

payout_mult(paytable, slot_result) ==
    PayoutLoop(paytable.entries, slot_emojis(slot_result), 1)

-----------------------------------------------------------------------------
(* db/db_handler.py: the sqlite connection and the tables *)

\* the length of the tally list of init_data
TallyLen == 64

\* the connection: the tables as the connection sees them, the tables as of the
\* start of the open transaction, and sqlite's in_transaction flag
Connect(accts, ldgr) ==
    [accounts |-> accts, ledger |-> ldgr,
     begin_accounts |-> accts, begin_ledger |-> ldgr,
     in_transaction |-> FALSE]

\* cursor.execute("BEGIN TRANSACTION")
ExecBegin(conn) ==
    [conn EXCEPT !.begin_accounts = conn.accounts,
                 !.begin_ledger = conn.ledger,
                 !.in_transaction = TRUE]

\* mutant of ExecUpdateTally: the UPDATE without its WHERE clause
ExecUpdateTallyAllRows(conn, tally, balance, id) ==
    [conn EXCEPT !.accounts =
        [i \in DOMAIN conn.accounts |->
            [conn.accounts[i] EXCEPT !.tally = tally, !.balance_cents = balance]]]

\* UPDATE Gambler_Tally SET tally = ?, balance_cents = ? WHERE id = ?
ExecUpdateTally(conn, tally, balance, id) ==
    IF id \in DOMAIN conn.accounts
    THEN [conn EXCEPT !.accounts[id].tally = tally,
                      !.accounts[id].balance_cents = balance]
    ELSE conn

\* mutant of NextTransId: every row gets the transaction id 1
NextTransIdConstant(ldgr) == 1

\* trans_id INTEGER PRIMARY KEY AUTOINCREMENT: one more than the largest so far
NextTransId(ldgr) ==
    IF Len(ldgr) = 0 THEN 1
    ELSE 1 + (CHOOSE m \in {ldgr[n].trans_id : n \in 1..Len(ldgr)} :
                 \A n \in 1..Len(ldgr) : ldgr[n].trans_id <= m)

\* mutant of ExecInsertLedger: the statement stores no row
ExecInsertLedgerSkipped(conn, id, emoji, value, serialized, bet_cents) == conn

\* INSERT INTO Gambler_Ledger (user_id, emoji, value, slot_paytable, bet_cents)
ExecInsertLedger(conn, id, emoji, value, serialized, bet_cents) ==
    [conn EXCEPT !.ledger =
        Append(conn.ledger,
               [trans_id |-> NextTransId(conn.ledger), user_id |-> id,
                emoji |-> emoji, value |-> value,
                slot_paytable |-> serialized, bet_cents |-> bet_cents])]

\* self.connection.commit()
Commit(conn) == [conn EXCEPT !.in_transaction = FALSE]

\* Python's sqlite3 opens a transaction before an INSERT or UPDATE when the
\* connection has none open; it stays open until a commit or a rollback
ImplicitBegin(conn) == IF conn.in_transaction THEN conn ELSE ExecBegin(conn)

\* mutant of ExecRollback: the handler ends the transaction without undoing it
ExecRollbackKeeps(conn) ==
    [error |-> "none", conn |-> [conn EXCEPT !.in_transaction = FALSE]]

\* cursor.execute("ROLLBACK"): sqlite refuses it when no transaction is active
\* ("cannot rollback - no transaction is active"), else the tables are those
\* of the start of the transaction
ExecRollback(conn) ==
    IF conn.in_transaction
    THEN [error |-> "none",
          conn |-> [conn EXCEPT !.accounts = conn.begin_accounts,
                                !.ledger = conn.begin_ledger,
                                !.in_transaction = FALSE]]
    ELSE [error |-> "OperationalError", conn |-> conn]

\* the result of a call that an exception has left: no value is returned
NoData == "None"

\* mutant of init_data: the fresh row starts with a balance of 100
init_dataBonus(conn, id, name, username) ==
    LET row == [name |-> name, tally |-> [n \in 1..TallyLen |-> 0],
                balance_cents |-> 100, username |-> username]
        c == ImplicitBegin(conn)
    IN  IF id \in DOMAIN c.accounts
        THEN [error |-> "IntegrityError", conn |-> c, data |-> NoData]
        ELSE [error |-> "none",
              conn |-> Commit([c EXCEPT !.accounts = (id :> row) @@ c.accounts]),
              data |-> row]

\* lines 143-148 of init_data, the INSERT of the fresh row. id is the primary
\* key of Gambler_Tally: the INSERT of an id that has a row raises
\* IntegrityError and the row stays as it is. The transaction that the INSERT
\* has opened stays open.
ExecInsertTally(conn, id, name, username) ==
    LET row == [name |-> name, tally |-> [n \in 1..TallyLen |-> 0],
                balance_cents |-> 0, username |-> username]
        c == ImplicitBegin(conn)
    IN  IF id \in DOMAIN c.accounts
        THEN [error |-> "IntegrityError", conn |-> c, data |-> NoData]
        ELSE [error |-> "none",
              conn |-> [c EXCEPT !.accounts = (id :> row) @@ c.accounts],
              data |-> row]

\* DbHandler.init_data: the INSERT of the fresh row and its commit. After an
\* IntegrityError the commit of line 149 is not reached.
init_data(conn, id, name, username) ==
    LET s == ExecInsertTally(conn, id, name, username)
    IN  IF s.error # "none" THEN s
        ELSE [s EXCEPT !.conn = Commit(s.conn)]

\* mutant of get_data: the row is stored anew on every call (INSERT OR REPLACE)
get_dataReplace(conn, id, name, username) ==
    LET row == [name |-> name, tally |-> [n \in 1..TallyLen |-> 0],
                balance_cents |-> 0, username |-> username]
    IN  [error |-> "none",
         conn |-> [conn EXCEPT !.accounts = (id :> row) @@ conn.accounts],
         data |-> row]

\* DbHandler.get_data: the stored row, or the one init_data creates
get_data(conn, id, name, username) ==
    IF id \notin DOMAIN conn.accounts
    THEN init_data(conn, id, name, username)
    ELSE [error |-> "none", conn |-> conn, data |-> conn.accounts[id]]

\* mutant of update_user_data: an id with no row is stored with the names
update_user_dataUpsert(conn, id, name, username) ==
    Commit(IF id \in DOMAIN conn.accounts
           THEN [conn EXCEPT !.accounts[id].name = name,
                             !.accounts[id].username = username]
           ELSE init_data(conn, id, name, username).conn)

\* DbHandler.update_user_data: UPDATE Gambler_Tally SET name = ?, username = ?
\* WHERE id = ?, which changes no row when no row has the id; then the commit
update_user_data(conn, id, name, username) ==
    Commit(IF id \in DOMAIN conn.accounts
           THEN [conn EXCEPT !.accounts[id].name = name,
                             !.accounts[id].username = username]
           ELSE conn)

\* mutant of get_user_rank: the accounts of equal balance are counted as above
get_user_rankNotStrict(conn, id) ==
    IF id \notin DOMAIN conn.accounts THEN 0
    ELSE LET balance == conn.accounts[id].balance_cents
             rank_above == Cardinality({i \in DOMAIN conn.accounts \ {id} :
                              conn.accounts[i].balance_cents >= balance})
         IN  rank_above + 1

\* DbHandler.get_user_rank: 0 when no row has the id, else one more than
\* SELECT COUNT(*) FROM Gambler_Tally WHERE balance_cents > ?
get_user_rank(conn, id) ==
    IF id \notin DOMAIN conn.accounts THEN 0
    ELSE LET balance == conn.accounts[id].balance_cents
             rank_above == Cardinality({i \in DOMAIN conn.accounts :
                              conn.accounts[i].balance_cents > balance})
         IN  rank_above + 1

\* the ids of a table in the orders a query may return its rows in
RowOrders(accts) ==
    {o \in [1..Cardinality(DOMAIN accts) -> DOMAIN accts] :
        \A a, b \in DOMAIN o : a # b => o[a] # o[b]}

\* mutant of OrderByBalanceDesc: the rows are sorted by ascending balance
OrderByBalanceAsc(accts) ==
    {o \in RowOrders(accts) :
        \A a, b \in DOMAIN o :
            a < b => accts[o[a]].balance_cents <= accts[o[b]].balance_cents}

\* ORDER BY balance_cents DESC: the query does not fix the order of rows of
\* equal balance, so every order that is sorted by balance is a result
OrderByBalanceDesc(accts) ==
    {o \in RowOrders(accts) :
        \A a, b \in DOMAIN o :
            a < b => accts[o[a]].balance_cents >= accts[o[b]].balance_cents}

\* LIMIT ?: the first limit rows; sqlite reads a negative limit as no limit
Limit(rows, limit) ==
    IF limit < 0 \/ limit >= Len(rows) THEN rows ELSE SubSeq(rows, 1, limit)

\* DbHandler.get_leaderboard: the dicts the rows of the query are returned as,
\* one result for every order the query may produce
get_leaderboard(conn, limit) ==
    {[n \in 1..Len(Limit(o, limit)) |->
         [id |-> o[n], name |-> conn.accounts[o[n]].name,
          tally |-> conn.accounts[o[n]].tally,
          balance_cents |-> conn.accounts[o[n]].balance_cents]] :
     o \in OrderByBalanceDesc(conn.accounts)}

\* mutant of ListPos: the index is taken as counting from 1 (tally[value])
ListPosOneBased(len, i) ==
    IF i + 1 >= 0 /\ i + 1 < len THEN i + 2
    ELSE IF i + 1 < 0 /\ i + 1 >= 0 - len THEN len + i + 2
    ELSE 0

\* Python's list index: i counts from the end when negative; 0 when out of range
\* (IndexError), else the 1-based position
ListPos(len, i) ==
    IF i >= 0 /\ i < len THEN i + 1
    ELSE IF i < 0 /\ i >= 0 - len THEN len + i + 1
    ELSE 0

-----------------------------------------------------------------------------
(* db/db_handler.py: DbHandler.process_slot_machine *)

\* the connection after a statement of the transaction has raised. On a
\* failure of the storage (a full database, an I/O error: the fail points
\* named "_abort") sqlite rolls the transaction back by itself before the
\* statement raises; after any other failure (a constraint, a value that
\* cannot be bound, a locked file) the transaction stays open.
AfterRaise(conn, fail) ==
    IF fail \in {"update_abort", "insert_abort", "commit_abort"}
    THEN ExecRollback(conn).conn
    ELSE conn

\* lines 274-291, the try block: the statements up to the first one that
\* raises, and the commit; fail names the statement that raises and how
\* ("none": no statement fails). sqlite refuses BEGIN on a connection that has
\* a transaction open ("cannot start a transaction within a transaction").
TryBlock(conn, fail, tally, balance, id, emoji, value, serialized, bet_cents) ==
    IF fail = "begin" \/ conn.in_transaction
    THEN [raised |-> TRUE, failed |-> "begin", conn |-> conn]
    ELSE LET c1 == ExecBegin(conn) IN
    IF fail \in {"update", "update_abort"}
    THEN [raised |-> TRUE, failed |-> "update", conn |-> AfterRaise(c1, fail)]
    ELSE LET c2 == ExecUpdateTally(c1, tally, balance, id) IN
    IF fail \in {"insert", "insert_abort"}
    THEN [raised |-> TRUE, failed |-> "insert", conn |-> AfterRaise(c2, fail)]
    ELSE LET c3 == ExecInsertLedger(c2, id, emoji, value, serialized, bet_cents) IN
    IF fail \in {"commit", "commit_abort"}
    THEN [raised |-> TRUE, failed |-> "commit", conn |-> AfterRaise(c3, fail)]
    ELSE [raised |-> FALSE, failed |-> "none", conn |-> Commit(c3)]

\* the except block, with the names of the function in scope: ROLLBACK, then
\* the original balance is returned; an error of the ROLLBACK itself, which
\* sqlite refuses when no transaction is open (BEGIN has failed, or sqlite has
\* rolled back by itself), leaves the function as an exception
ExceptBlock(conn, data, balance) ==
    LET rb == ExecRollback(conn)
    IN  IF rb.error # "none"
        THEN [conn |-> rb.conn, outcome |-> "raised", error |-> rb.error,
              returned |-> FALSE, ret |-> 0, failed |-> "none"]
        ELSE [conn |-> rb.conn, outcome |-> "rolled_back", error |-> "none",
              returned |-> TRUE, ret |-> data.balance_cents, failed |-> "none"]

\* mutant of NewBalance: the balance is floored at zero
NewBalanceFloored(balance, mult, bet_cents) ==
    IF (balance - bet_cents) + mult * bet_cents < 0 THEN 0
    ELSE (balance - bet_cents) + mult * bet_cents

\* mutant of NewBalance: the bet is not taken from the balance
NewBalanceNoDebit(balance, mult, bet_cents) == balance + mult * bet_cents

\* balance -= bet_cents; balance += payout_mult * bet_cents
NewBalance(balance, mult, bet_cents) == (balance - bet_cents) + mult * bet_cents

\* mutant of IncrementTally: the counter of the play is raised and the other
\* counters are reset
IncrementTallyAlone(tally, pos) ==
    [n \in DOMAIN tally |-> IF n = pos THEN tally[n] + 1 ELSE 0]

\* tally[value - 1] += 1
IncrementTally(tally, pos) == [tally EXCEPT ![pos] = @ + 1]

\* the function from the read of the account on: an exception of get_data
\* leaves the function (line 245 is outside the try block); else the tally and
\* the balance are computed, then the try block runs; failed records the
\* statement that raised
PlayOn(g, id, value, emoji, paytable, bet_cents, fail) ==
    IF g.error # "none"
    THEN [conn |-> g.conn, outcome |-> "raised", error |-> g.error,
          returned |-> FALSE, ret |-> 0, failed |-> "none"]
    ELSE
    LET pos == ListPos(Len(g.data.tally), value - 1)
    IN  IF pos = 0
        THEN [conn |-> g.conn, outcome |-> "raised", error |-> "IndexError",
              returned |-> FALSE, ret |-> 0, failed |-> "none"]
        ELSE IF value \notin DOMAIN SLOT_MACHINE_VALUE
        THEN [conn |-> g.conn, outcome |-> "raised", error |-> "KeyError",
              returned |-> FALSE, ret |-> 0, failed |-> "none"]
        ELSE
        LET tally == IncrementTally(g.data.tally, pos)
            mult == payout_mult(paytable, SLOT_MACHINE_VALUE[value])
            balance == NewBalance(g.data.balance_cents, mult, bet_cents)
            t == TryBlock(g.conn, fail, tally, balance, id, emoji, value,
                          paytable.serialized, bet_cents)
        IN  IF t.raised
            THEN [ExceptBlock(t.conn, g.data, balance) EXCEPT !.failed = t.failed]
            ELSE [conn |-> t.conn, outcome |-> "committed", error |-> "none",
                  returned |-> TRUE, ret |-> balance, failed |-> "none"]

\* mutant of process_slot_machine: the account is read, and so provisioned,
\* before dev_mode is looked at
process_slot_machineProvisions(conn, dev_mode, id, name, username, value, emoji, paytable, bet_cents, fail) ==
    IF dev_mode
    THEN [conn |-> get_data(conn, id, name, username).conn, outcome |-> "dev_mode",
          error |-> "none", returned |-> TRUE, ret |-> 0, failed |-> "none"]
    ELSE PlayOn(get_data(conn, id, name, username), id, value, emoji,
                paytable, bet_cents, fail)

\* the function: with dev_mode on it returns 0 at once, else the account is
\* read (and provisioned when it is new) and played on
process_slot_machine(conn, dev_mode, id, name, username, value, emoji, paytable, bet_cents, fail) ==
    IF dev_mode
    THEN [conn |-> conn, outcome |-> "dev_mode", error |-> "none",
          returned |-> TRUE, ret |-> 0, failed |-> "none"]
    ELSE PlayOn(get_data(conn, id, name, username), id, value, emoji,
                paytable, bet_cents, fail)

\* Paytable.get_payout_multiplier
get_payout_multiplier(paytable, value, slot_mappings) ==
    IF value \notin DOMAIN slot_mappings THEN 0
    ELSE PayoutLoop(paytable.entries, slot_emojis(slot_mappings[value]), 1)

-----------------------------------------------------------------------------
(* main.py: the bot as one module. GamblerInfoHandler has the tables, the
   combination space and the lookups of DbHandler, statement for statement
   (init_data, get_data, get_leaderboard, get_user_rank, update_user_data,
   get_combo_name), and a process_slot_machine of its own. *)

\* PaytableEntry.to_dict: the combo as the values of its members
to_dict(entry) ==
    [combo |-> [i \in 1..Len(entry.combo) |-> SlotEmojiValue[entry.combo[i]]],
     payout_mult |-> entry.payout_mult]

\* line 433: json.dumps([entry.to_dict() for entry in config.paytable.entries])
paytable_json(paytable) ==
    json_dumps([i \in 1..Len(paytable.entries) |-> to_dict(paytable.entries[i])])

\* GamblerInfoHandler.process_slot_machine, lines 403-443: the multiplier comes
\* from get_payout_multiplier, which answers an index that is no key with 0, so
\* the only lookup that can fail is tally[value - 1]
GamblerInfoHandler_PlayOn(g, id, value, emoji, paytable, bet_cents, fail) ==
    IF g.error # "none"
    THEN [conn |-> g.conn, outcome |-> "raised", error |-> g.error,
          returned |-> FALSE, ret |-> 0, failed |-> "none"]
    ELSE
    LET pos == ListPos(Len(g.data.tally), value - 1)
    IN  IF pos = 0
        THEN [conn |-> g.conn, outcome |-> "raised", error |-> "IndexError",
              returned |-> FALSE, ret |-> 0, failed |-> "none"]
        ELSE
        LET tally == IncrementTally(g.data.tally, pos)
            mult == get_payout_multiplier(paytable, value, SLOT_MACHINE_VALUE)
            balance == NewBalance(g.data.balance_cents, mult, bet_cents)
            t == TryBlock(g.conn, fail, tally, balance, id, emoji, value,
                          paytable_json(paytable), bet_cents)
        IN  IF t.raised
            THEN [ExceptBlock(t.conn, g.data, balance) EXCEPT !.failed = t.failed]
            ELSE [conn |-> t.conn, outcome |-> "committed", error |-> "none",
                  returned |-> TRUE, ret |-> balance, failed |-> "none"]

\* GamblerInfoHandler.process_slot_machine: the paytable and dev_mode are those
\* of the module's config, whatever the caller passes as slot_payout_table
GamblerInfoHandler_process_slot_machine(conn, dev_mode, id, name, username, value, emoji, paytable, bet_cents, fail) ==
    IF dev_mode
    THEN [conn |-> conn, outcome |-> "dev_mode", error |-> "none",
          returned |-> TRUE, ret |-> 0, failed |-> "none"]
    ELSE GamblerInfoHandler_PlayOn(get_data(conn, id, name, username), id, value,
                                   emoji, paytable, bet_cents, fail)

-----------------------------------------------------------------------------
(* Inputs *)

Ids == {1, 2}

\* update.message.from_user of the two users: full_name, and username (None
\* for the second user)
NoUsername == "None"
FullName == (1 :> "ann") @@ (2 :> "bob")
Username == (1 :> "annh") @@ (2 :> NoUsername)

\* outcome indices sent to play: inside [1,64] (all bar, a combination no
\* default entry matches, all seven) and outside (KeyError, IndexError)
PlayValues == {1, 7, 64, 0, 65}

\* the statement of the transaction that raises, and how: with the transaction
\* left open, or ("_abort") after sqlite has rolled it back by itself
FailPoints ==
    {"none", "begin", "update", "insert", "commit",
     "update_abort", "insert_abort", "commit_abort"}

\* constants.DiceEmoji.SLOT_MACHINE
SLOT_MACHINE_EMOJI == "slot"

Entry(a, b, c, m) == [combo |-> <<a, b, c>>, payout_mult |-> m]

\* the paytable of Paytable._setup_default_paytable, as configuration data
DefaultPaytable ==
    << Entry("e7", "e7", "e7", 80),
       Entry("eBar", "eBar", "eBar", 40),
       Entry("eLemon", "eLemon", "eLemon", 10),
       Entry("eGrape", "eGrape", "eGrape", 10),
       Entry("eBar", "eBar", "", 1) >>

\* the same entries with the wildcard entry listed first
GeneralFirstPaytable ==
    << Entry("eBar", "eBar", "", 1),
       Entry("e7", "e7", "e7", 80),
       Entry("eBar", "eBar", "eBar", 40) >>

BetAmounts == {25, 10}

Configs ==
    [dev_mode : BOOLEAN, bet_cents : BetAmounts,
     paytable : {Paytable(PyList(DefaultPaytable)),
                 Paytable(PyList(GeneralFirstPaytable))}]

\* the configurations of the runs with several operations: the two
\* paytables, each with a bet amount of its own, and the simulation mode
StartConfigs ==
    {[dev_mode |-> FALSE, bet_cents |-> 25, paytable |-> Paytable(PyList(DefaultPaytable))],
     [dev_mode |-> FALSE, bet_cents |-> 10, paytable |-> Paytable(PyList(GeneralFirstPaytable))],
     [dev_mode |-> TRUE, bet_cents |-> 25, paytable |-> Paytable(PyList(DefaultPaytable))]}

NoCall == [fn |-> "none", value |-> 0, error |-> "none", result |-> 0]

\* the database file after DbHandler.__init__ has completed on it: both tables,
\* Gambler_Tally with the username column, user_version 1, the handler in place
Started ==
    [tables |-> {"Gambler_Tally", "Gambler_Ledger"}, username |-> TRUE,
     user_version |-> 1, handler |-> TRUE]

\* the processes that run a bot on the database file
Processes == {1, 2}

\* the frame of a process that is in no call of process_slot_machine, its
\* connection with no transaction open. pc is the statement the call is at
\* next; data and balance are the locals of the call, failed the statement of
\* the try block that has raised; lock: the connection holds the write lock
\* of the file; snap: the open transaction has read, and reads the file as of
\* then; view: that state of the file, or the tables with the uncommitted
\* writes of the connection
IdleFrame ==
    [busy |-> FALSE, pc |-> "idle", id |-> 0, value |-> 0, data |-> NoData,
     balance |-> 0, failed |-> "none", in_transaction |-> FALSE,
     lock |-> FALSE, snap |-> FALSE,
     view |-> [accounts |-> EmptyDict, ledger |-> <<>>]]
NoFlights == [p \in Processes |-> IdleFrame]
NoPlay == [op |-> "none", id |-> 0, value |-> 0, outcome |-> "none",
           error |-> "none", returned |-> FALSE, ret |-> 0, failed |-> "none"]

-----------------------------------------------------------------------------
(* The ledger: the state after DbHandler.__init__ on an empty database, and
   one action per call of process_slot_machine *)

Init ==
    /\ config \in Configs
    /\ accounts = EmptyDict
    /\ ledger = <<>>
    /\ last = NoPlay
    /\ call = NoCall
    /\ store = Started
    /\ inflight = NoFlights

\* db_handler.process_slot_machine(id, name, username, value, emoji, paytable,
\* bet_cents) with the arguments the message handler passes: the user's names,
\* the configured bet and paytable. Every action records its call in last.
\* The guard on the ledger is the bound of the model; the code has none.
Play(id, value, fail) ==
    \E r \in {process_slot_machine(Connect(accounts, ledger), config.dev_mode,
                                  id, FullName[id], Username[id], value,
                                  SLOT_MACHINE_EMOJI, config.paytable,
                                  config.bet_cents, fail)} :
        /\ r.outcome = "committed" => Len(ledger) < MaxPlays
        /\ accounts' = r.conn.accounts
        /\ ledger' = r.conn.ledger
        /\ last' = [op |-> "play", id |-> id, value |-> value,
                    outcome |-> r.outcome, error |-> r.error,
                    returned |-> r.returned, ret |-> r.ret,
                    failed |-> r.failed]
        /\ UNCHANGED <<config, call, store, inflight>>

Next ==
    \E id \in Ids, value \in PlayValues, fail \in FailPoints :
        Play(id, value, fail)

Spec == Init /\ [][Next]_vars

-----------------------------------------------------------------------------
(* The operations of DbHandler on the accounts, each call one action, and the
   handlers that call them: a handler runs its calls without yielding (its
   awaits come after the last call), so a handler is one action too. *)

\* from_user.full_name and from_user.username as of a later message: the first
\* user has changed both
NewFullName == (1 :> "anna") @@ (2 :> "bob")
NewUsername == (1 :> NoUsername) @@ (2 :> NoUsername)

Identities(id) ==
    {[name |-> FullName[id], username |-> Username[id]],
     [name |-> NewFullName[id], username |-> NewUsername[id]]}

\* get_leaderboard(10) is the call of the leaderboard command; the other limits
\* cut the list, return nothing, or (negative) do not limit
Limits == {10, 2, 1, 0, 0 - 1}

\* the indices and the failures of the plays between the other operations
AccountPlayValues == {1, 7, 0}
AccountFailPoints == {"none", "insert", "insert_abort"}

\* the record of a call that returned ret; value holds the arguments besides id
Returned(op, id, value, ret) ==
    [op |-> op, id |-> id, value |-> value, outcome |-> "returned",
     error |-> "none", returned |-> TRUE, ret |-> ret, failed |-> "none"]

\* sum(data["tally"])
RECURSIVE PySumLoop(_, _)
PySumLoop(list, n) == IF n = 0 THEN 0 ELSE PySumLoop(list, n - 1) + list[n]

PySum(list) == PySumLoop(list, Len(list))

\* db_handler.get_data(id, name, username)
GetData(id, identity) ==
    \E r \in {get_data(Connect(accounts, ledger), id, identity.name,
                        identity.username)} :
        /\ accounts' = r.conn.accounts
        /\ ledger' = r.conn.ledger
        /\ last' = [Returned("get_data", id, identity, r.data) EXCEPT
                        !.outcome = IF r.error = "none" THEN "returned" ELSE "raised",
                        !.error = r.error, !.returned = r.error = "none"]
        /\ UNCHANGED <<config, call, store, inflight>>

\* db_handler.update_user_data(id, name, username)
UpdateUserData(id, identity) ==
    \E c \in {update_user_data(Connect(accounts, ledger), id, identity.name,
                                identity.username)} :
        /\ accounts' = c.accounts
        /\ ledger' = c.ledger
        /\ last' = Returned("update_user_data", id, identity, "None")
        /\ UNCHANGED <<config, call, store, inflight>>

\* db_handler.get_user_rank(id)
GetUserRank(id) ==
    /\ last' = Returned("get_user_rank", id, 0,
                        get_user_rank(Connect(accounts, ledger), id))
    /\ UNCHANGED <<config, accounts, ledger, call, store, inflight>>

\* db_handler.get_leaderboard(limit)
GetLeaderboard(limit) ==
    \E rows \in get_leaderboard(Connect(accounts, ledger), limit) :
        /\ last' = Returned("get_leaderboard", 0, limit, rows)
        /\ UNCHANGED <<config, accounts, ledger, call, store, inflight>>

\* the record of a step that calls process_slot_machine: outcome, ret and
\* failed are those of the call, error is the exception that has ended the
\* step
Handled(op, id, value, r, error) ==
    [op |-> op, id |-> id, value |-> value, outcome |-> r.outcome,
     error |-> error, returned |-> error = "none", ret |-> r.ret,
     failed |-> r.failed]

\* lines 47-48 of the message handler, after process_slot_machine has
\* returned: get_combo_name(value), then get_data(id, name, username), which
\* stores the row of a user who has none
NameAndRead(conn, id, name, username, value) ==
    IF get_combo_name(value).error # "none"
    THEN [error |-> get_combo_name(value).error, conn |-> conn, data |-> NoData]
    ELSE get_data(conn, id, name, username)

\* messages.slot_machine_handler, lines 36-48: process_slot_machine, and when
\* it has returned get_combo_name and get_data; an exception of a call ends
\* the handler. The reaction and the reply that follow store nothing.
slot_machine_handler(id, value, fail) ==
    \E r \in {process_slot_machine(Connect(accounts, ledger), config.dev_mode,
                                  id, FullName[id], Username[id], value,
                                  SLOT_MACHINE_EMOJI, config.paytable,
                                  config.bet_cents, fail)} :
    \E g \in {IF r.returned
              THEN NameAndRead(r.conn, id, FullName[id], Username[id], value)
              ELSE [error |-> r.error, conn |-> r.conn, data |-> NoData]} :
        /\ r.outcome = "committed" => Len(ledger) < MaxPlays
        /\ accounts' = g.conn.accounts
        /\ ledger' = g.conn.ledger
        /\ last' = Handled("slot_machine_handler", id, value, r, g.error)
        /\ UNCHANGED <<config, call, store, inflight>>

\* reply_to_message of a command: None, or a message of one of the users
NoReply == 0

\* commands.stat, lines 42-59: update_user_data for the sender, then get_data
\* for the sender or, when the command is a reply, for the user replied to,
\* which stores the row of a user who has none. The reply_text of line 84
\* stores nothing.
stat(id, identity, reply_to) ==
    \E c \in {update_user_data(Connect(accounts, ledger), id, identity.name,
                                identity.username)} :
    \E g \in {IF reply_to = NoReply
              THEN get_data(c, id, identity.name, identity.username)
              ELSE get_data(c, reply_to, FullName[reply_to], Username[reply_to])} :
        /\ accounts' = g.conn.accounts
        /\ ledger' = g.conn.ledger
        /\ last' = [Returned("stat", id,
                             [name |-> identity.name,
                              username |-> identity.username,
                              reply_to |-> reply_to],
                             [data |-> g.data,
                              total_plays |-> IF g.error = "none"
                                              THEN PySum(g.data.tally) ELSE 0])
                     EXCEPT !.outcome = IF g.error = "none" THEN "returned" ELSE "raised",
                            !.error = g.error, !.returned = g.error = "none"]
        /\ UNCHANGED <<config, call, store, inflight>>

NextAccounts ==
    \/ \E id \in Ids, value \in AccountPlayValues, fail \in AccountFailPoints :
          Play(id, value, fail)
    \/ \E id \in Ids : \E identity \in Identities(id) : GetData(id, identity)
    \/ \E id \in Ids : \E identity \in Identities(id) : UpdateUserData(id, identity)
    \/ \E id \in Ids : GetUserRank(id)
    \/ \E limit \in Limits : GetLeaderboard(limit)
    \/ \E id \in Ids, value \in AccountPlayValues, fail \in AccountFailPoints :
          slot_machine_handler(id, value, fail)
    \/ \E id \in Ids, reply_to \in Ids \cup {NoReply} :
          \E identity \in Identities(id) : stat(id, identity, reply_to)

\* the state after DbHandler.__init__ on an empty database, under one of the
\* configurations of StartConfigs
InitAccounts == Init /\ config \in StartConfigs

SpecAccounts == InitAccounts /\ [][NextAccounts]_vars

-----------------------------------------------------------------------------
(* main.py: the plays of the bot as the single module runs them, on its
   GamblerInfoHandler *)

\* gambler_info_handler.process_slot_machine(id, name, username, value,
\* Dice.SLOT_MACHINE, config.paytable, bet_cents)
GamblerInfoHandler_Play(id, value, fail) ==
    \E r \in {GamblerInfoHandler_process_slot_machine(
                  Connect(accounts, ledger), config.dev_mode, id, FullName[id],
                  Username[id], value, SLOT_MACHINE_EMOJI, config.paytable,
                  config.bet_cents, fail)} :
        /\ r.outcome = "committed" => Len(ledger) < MaxPlays
        /\ accounts' = r.conn.accounts
        /\ ledger' = r.conn.ledger
        /\ last' = [op |-> "play", id |-> id, value |-> value,
                    outcome |-> r.outcome, error |-> r.error,
                    returned |-> r.returned, ret |-> r.ret,
                    failed |-> r.failed]
        /\ UNCHANGED <<config, call, store, inflight>>

\* main.slot_machine_handler, lines 580-593: get_data, which stores the row of
\* a user who has none, then process_slot_machine, and when it has returned
\* get_combo_name and get_data; an exception of a call ends the handler. The
\* reply that follows stores nothing.
main_slot_machine_handler(id, value, fail) ==
    \E d \in {get_data(Connect(accounts, ledger), id, FullName[id], Username[id])} :
    \E r \in {GamblerInfoHandler_process_slot_machine(
                  d.conn, config.dev_mode, id, FullName[id], Username[id],
                  value, SLOT_MACHINE_EMOJI, config.paytable, config.bet_cents,
                  fail)} :
    \E g \in {IF r.returned
              THEN NameAndRead(r.conn, id, FullName[id], Username[id], value)
              ELSE [error |-> r.error, conn |-> r.conn, data |-> NoData]} :
        /\ r.outcome = "committed" => Len(ledger) < MaxPlays
        /\ accounts' = g.conn.accounts
        /\ ledger' = g.conn.ledger
        /\ last' = Handled("slot_machine_handler", id, value, r, g.error)
        /\ UNCHANGED <<config, call, store, inflight>>

NextMain ==
    \/ \E id \in Ids, value \in PlayValues, fail \in AccountFailPoints :
          GamblerInfoHandler_Play(id, value, fail)
    \/ \E id \in Ids, value \in PlayValues, fail \in AccountFailPoints :
          main_slot_machine_handler(id, value, fail)

SpecMain == InitAccounts /\ [][NextMain]_vars

-----------------------------------------------------------------------------
(* The rank and the leaderboard, read from the databases that earlier runs of
   the bot have left *)

BoardIds == 1..MaxAccounts

\* the paytable of an earlier run: one entry of three wildcards that pays
\* mult on every combination
WildcardPaytable(mult) == Paytable(PyList(<<Entry("", "", "", mult)>>))

\* the connection after the users of DOMAIN f among 1..n have each played index
\* 1 once, in the order of their ids, user id under the paytable paying f[id]
RECURSIVE PlayedBy(_, _)
PlayedBy(f, n) ==
    IF n = 0 THEN Connect(EmptyDict, <<>>)
    ELSE IF n \in DOMAIN f
    THEN process_slot_machine(PlayedBy(f, n - 1), FALSE, n, "player", NoUsername,
                              1, SLOT_MACHINE_EMOJI, WildcardPaytable(f[n]), 25,
                              "none").conn
    ELSE PlayedBy(f, n - 1)

\* with the bet of 25 a first play under the multipliers 5 and 3 leaves the
\* balances 100 and 50
InitBoard ==
    \E S \in SUBSET BoardIds :
        \E f \in [S -> {5, 3}] :
            /\ config = [dev_mode |-> FALSE, bet_cents |-> 25,
                         paytable |-> Paytable(PyList(DefaultPaytable))]
            /\ accounts = PlayedBy(f, MaxAccounts).accounts
            /\ ledger = PlayedBy(f, MaxAccounts).ledger
            /\ last = NoPlay
            /\ call = NoCall
            /\ store = Started
            /\ inflight = NoFlights

NextBoard ==
    \/ \E id \in BoardIds : GetUserRank(id)
    \/ \E limit \in Limits : GetLeaderboard(limit)

SpecBoard == InitBoard /\ [][NextBoard]_vars

-----------------------------------------------------------------------------
(* handlers/commands.py: the leaderboard command, on the databases that earlier
   runs of the bot have left: users who have played once, and users who have
   only sent a command and so have a row with no play *)

\* the sets of ids that the rows of get_leaderboard(limit) may have: limit rows
\* (every row when there are fewer), none of them below a row that is left out
TopSets(accts, limit) ==
    LET size == IF limit < 0 \/ limit >= Cardinality(DOMAIN accts)
                THEN Cardinality(DOMAIN accts) ELSE limit
    IN  {T \in SUBSET DOMAIN accts :
            /\ Cardinality(T) = size
            /\ \A a \in T : \A b \in DOMAIN accts \ T :
                  accts[a].balance_cents >= accts[b].balance_cents}

\* lines 97-99: top_users = get_leaderboard(10), then the rows with
\* sum(tally) > 0 of it. The results are those of filtering every list of
\* get_leaderboard; they are computed from the set of ids in the list and the
\* orders of the rows that stay, without the orders of the rows filtered out.
top_users(conn, limit) ==
    UNION {LET kept == {i \in T : PySum(conn.accounts[i].tally) > 0}
           IN  {o \in [1..Cardinality(kept) -> kept] :
                   /\ \A a, b \in DOMAIN o : a # b => o[a] # o[b]
                   /\ \A a, b \in DOMAIN o :
                         a < b => conn.accounts[o[a]].balance_cents
                                  >= conn.accounts[o[b]].balance_cents} :
           T \in TopSets(conn.accounts, limit)}

\* the users with a play in the stored table
PlayerIds == {1, 2}

\* the connection after get_data has provisioned the first n idle users
RECURSIVE ProvisionedIdle(_, _)
ProvisionedIdle(conn, n) ==
    IF n = 0 THEN conn
    ELSE get_data(ProvisionedIdle(conn, n - 1), 100 + n, "idle", NoUsername).conn

\* the stored tables: a play under the multipliers 0 and 3 with the bet of 25
\* leaves the balances -25 and 50; n users have no play (their ids are 101,
\* 102, ...)
InitLeaderboard ==
    \E S \in SUBSET PlayerIds : \E f \in [S -> {0, 3}] :
    \E n \in {0, 1, 9, 10} :
    \E c \in {ProvisionedIdle(PlayedBy(f, 2), n)} :
        /\ config = [dev_mode |-> FALSE, bet_cents |-> 25,
                     paytable |-> Paytable(PyList(DefaultPaytable))]
        /\ accounts = c.accounts
        /\ ledger = c.ledger
        /\ last = NoPlay
        /\ call = NoCall
        /\ store = Started
        /\ inflight = NoFlights

\* commands.leaderboard: the reply that no gambling has taken place when the
\* filtered list is empty; else the caller's row is read (and provisioned), the
\* rank is computed and the list is replied
LeaderboardCommand(id) ==
    \E c \in {Connect(accounts, ledger)} : \E top \in top_users(c, 10) :
        IF Len(top) = 0
        THEN /\ last' = Returned("leaderboard", id, 0,
                                 [reply |-> "No gambling has taken place yet",
                                  listed |-> top, in_top |-> FALSE,
                                  has_played |-> FALSE, rank |-> 0])
             /\ UNCHANGED <<config, accounts, ledger, call, store, inflight>>
        ELSE \E g \in {get_data(c, id, "caller", NoUsername)} :
             /\ accounts' = g.conn.accounts
             /\ ledger' = g.conn.ledger
             /\ last' = Returned("leaderboard", id, 0,
                                 [reply |-> "Gambling Leaderboard",
                                  listed |-> top,
                                  in_top |-> \E k \in 1..Len(top) : top[k] = id,
                                  has_played |-> PySum(g.data.tally) > 0,
                                  rank |-> get_user_rank(g.conn, id)])
             /\ UNCHANGED <<config, call, store, inflight>>

\* the users who send the command: the players, an idle user, a new user
NextLeaderboard == \E id \in PlayerIds \cup {101, 3} : LeaderboardCommand(id)

SpecLeaderboard == InitLeaderboard /\ [][NextLeaderboard]_vars

-----------------------------------------------------------------------------
(* The lookups: the combination space and the paytable are read-only after
   construction; each action is one call on an input drawn from a bounded set *)

\* the entries paytables are drawn from: concrete triples, entries with one
\* and with three wildcards, and an entry with a token that is no symbol
EntryPool ==
    { Entry("eBar", "eBar", "eBar", 40),
      Entry("eBar", "eBar", "", 1),
      Entry("", "eBar", "eBar", 2),
      Entry("", "", "", 5),
      Entry("e7", "e7", "e7", 80),
      Entry("?", "e7", "e7", 6) }

RECURSIVE SeqsUpTo(_, _)
SeqsUpTo(S, n) ==
    IF n = 0 THEN {<<>>}
    ELSE LET shorter == SeqsUpTo(S, n - 1)
         IN  shorter \cup {Append(q, e) : q \in shorter, e \in S}

LookupPaytables == {d \in SeqsUpTo(EntryPool, MaxEntries) : Len(d) > 0}

\* the indices looked up: [1,64] and one index on each side of it
LookupValues == 0..(TallyLen + 1)

\* the combination space is looked up under one configuration
InitCombo ==
    /\ config = [dev_mode |-> FALSE, bet_cents |-> 25,
                 paytable |-> Paytable(PyList(DefaultPaytable))]
    /\ accounts = EmptyDict
    /\ ledger = <<>>
    /\ last = NoPlay
    /\ call = NoCall
    /\ store = Started
    /\ inflight = NoFlights

\* the paytable is drawn from the bounded set of configurations
InitPaytable ==
    /\ config \in [dev_mode : {FALSE}, bet_cents : {25},
                   paytable : {Paytable(PyList(d)) : d \in LookupPaytables}]
    /\ accounts = EmptyDict
    /\ ledger = <<>>
    /\ last = NoPlay
    /\ call = NoCall
    /\ store = Started
    /\ inflight = NoFlights

\* self.SLOT_MACHINE_VALUE[value]
LookupCombination(value) ==
    /\ call' = IF value \in DOMAIN SLOT_MACHINE_VALUE
               THEN [fn |-> "SLOT_MACHINE_VALUE", value |-> value,
                     error |-> "none", result |-> SLOT_MACHINE_VALUE[value]]
               ELSE [fn |-> "SLOT_MACHINE_VALUE", value |-> value,
                     error |-> "KeyError", result |-> <<>>]
    /\ UNCHANGED <<config, accounts, ledger, last, store, inflight>>

\* db_handler.get_combo_name(value)
ComboName(value) ==
    /\ call' = [fn |-> "get_combo_name", value |-> value,
                error |-> get_combo_name(value).error,
                result |-> get_combo_name(value).name]
    /\ UNCHANGED <<config, accounts, ledger, last, store, inflight>>

\* the resolution of process_slot_machine: slot_result, slot_emojis, the loop
Resolve(value) ==
    /\ value \in DOMAIN SLOT_MACHINE_VALUE
    /\ call' = [fn |-> "payout_mult", value |-> value, error |-> "none",
                result |-> payout_mult(config.paytable, SLOT_MACHINE_VALUE[value])]
    /\ UNCHANGED <<config, accounts, ledger, last, store, inflight>>

\* config.paytable.get_payout_multiplier(value, SLOT_MACHINE_VALUE)
GetPayoutMultiplier(value) ==
    /\ call' = [fn |-> "get_payout_multiplier", value |-> value, error |-> "none",
                result |-> get_payout_multiplier(config.paytable, value,
                                                 SLOT_MACHINE_VALUE)]
    /\ UNCHANGED <<config, accounts, ledger, last, store, inflight>>

NextCombo ==
    \E value \in LookupValues :
        \/ LookupCombination(value)
        \/ ComboName(value)
        \/ GetPayoutMultiplier(value)

SpecCombo == InitCombo /\ [][NextCombo]_vars

NextPaytable == \E value \in LookupValues : Resolve(value)

SpecPaytable == InitPaytable /\ [][NextPaytable]_vars

\* the tokens of a configured combo: the four symbol values, the empty string,
\* and strings that are no member's value (a sign, the name of a member, a
\* value written twice)
TokenPool == {"e7", "eBar", "eLemon", "eGrape", "", "?", "SEVEN", "e7e7"}

\* the paytable has one entry, of three tokens of the pool
InitTokens ==
    /\ config \in [dev_mode : {FALSE}, bet_cents : {25},
                   paytable : {Paytable(PyList(<<Entry(a, b, c, 5)>>)) :
                                  a \in TokenPool, b \in TokenPool, c \in TokenPool}]
    /\ accounts = EmptyDict
    /\ ledger = <<>>
    /\ last = NoPlay
    /\ call = NoCall
    /\ store = Started
    /\ inflight = NoFlights

NextTokens == \E value \in LookupValues : Resolve(value)

SpecTokens == InitTokens /\ [][NextTokens]_vars

-----------------------------------------------------------------------------
(* config.py: Config.__init__ constructs the paytable of the process from the
   definition found in the configuration file *)

\* entries whose combo has two and four tokens
ShortEntry == [combo |-> <<"eBar", "eBar">>, payout_mult |-> 3]
LongEntry == [combo |-> <<"e7", "e7", "e7", "e7">>, payout_mult |-> 9]

ConfigEntryPool ==
    { Entry("eBar", "eBar", "eBar", 40),
      Entry("eBar", "eBar", "", 1),
      Entry("", "", "", 5),
      Entry("e7", "e7", "e7", 80),
      ShortEntry,
      LongEntry }

\* slot_machine_settings.get("paytable", []): a list of at most MaxEntries
\* entries (the empty list when the key is missing), or the JSON text of one
PaytableConfigs ==
    {PyList(d) : d \in SeqsUpTo(ConfigEntryPool, MaxEntries)}
        \cup {json_dumps(d) : d \in SeqsUpTo(ConfigEntryPool, MaxEntries)}

\* the entry records a definition holds
DefinitionOf(paytable_config) ==
    IF paytable_config.type = "list" THEN paytable_config.items
    ELSE json_loads(paytable_config)

\* self.paytable = Paytable(paytable_config): an exception of the constructor
\* ends the start, and the configuration in force stays the one of the last
\* start that succeeded
LoadConfig(paytable_config) ==
    \E p \in {Paytable(paytable_config)} :
        /\ call' = [fn |-> "Paytable", value |-> paytable_config,
                    error |-> p.error, result |-> p]
        /\ config' = IF p.error = "none" THEN [config EXCEPT !.paytable = p]
                     ELSE config
        /\ UNCHANGED <<accounts, ledger, last, store, inflight>>

NextConfig == \E paytable_config \in PaytableConfigs : LoadConfig(paytable_config)

SpecConfig == InitCombo /\ [][NextConfig]_vars

-----------------------------------------------------------------------------
(* db/db_handler.py: DbHandler.__init__ on a stored database. Python's sqlite3
   runs the schema statements outside a transaction, so each one that has
   completed stays in the file when a later one fails. *)

\* CREATE TABLE IF NOT EXISTS Gambler_Tally (..., username TEXT): a table that
\* exists is left as it is, a new one has the username column
ExecCreateTally(db) ==
    IF "Gambler_Tally" \in db.tables THEN db
    ELSE [db EXCEPT !.tables = @ \cup {"Gambler_Tally"}, !.username = TRUE]

\* CREATE TABLE IF NOT EXISTS Gambler_Ledger
ExecCreateLedger(db) == [db EXCEPT !.tables = @ \cup {"Gambler_Ledger"}]

\* the rows of Gambler_Tally with the new column, NULL in every row
AddColumn(accts) ==
    [id \in DOMAIN accts |->
        [name |-> accts[id].name, tally |-> accts[id].tally,
         balance_cents |-> accts[id].balance_cents, username |-> NoUsername]]

\* ALTER TABLE Gambler_Tally ADD COLUMN username TEXT: sqlite refuses a column
\* the table already has ("duplicate column name: username")
ExecAddColumn(db, accts) ==
    IF db.username
    THEN [error |-> "OperationalError", store |-> db, accounts |-> accts]
    ELSE [error |-> "none", store |-> [db EXCEPT !.username = TRUE],
          accounts |-> AddColumn(accts)]

\* lines 51-55: the migration of a database whose user_version is below 1
Migrate(db, accts) ==
    IF db.user_version < 1
    THEN LET a == ExecAddColumn(db, accts)
         IN  IF a.error # "none"
             THEN [error |-> a.error, store |-> a.store, accounts |-> a.accounts,
                   altered |-> FALSE]
             ELSE [error |-> "none", store |-> [a.store EXCEPT !.user_version = 1],
                   accounts |-> a.accounts, altered |-> TRUE]
    ELSE [error |-> "none", store |-> db, accounts |-> accts, altered |-> FALSE]

\* DbHandler.__init__: the two CREATE TABLE statements, the migration, and with
\* the pragmas, the indexes and the commit the handler is constructed
DbHandlerInit(db, accts) ==
    LET m == Migrate(ExecCreateLedger(ExecCreateTally(db)), accts)
    IN  [error |-> m.error, altered |-> m.altered, accounts |-> m.accounts,
         store |-> [m.store EXCEPT !.handler = (m.error = "none")]]

\* the database files a process is started on: no file yet, the file of a
\* version before the username column (user_version 0, with or without the
\* ledger table), the file of an earlier run of this version
FreshDatabase ==
    [tables |-> {}, username |-> FALSE, user_version |-> 0, handler |-> FALSE]
LegacyDatabases ==
    {[tables |-> t, username |-> FALSE, user_version |-> 0, handler |-> FALSE] :
        t \in {{"Gambler_Tally"}, {"Gambler_Tally", "Gambler_Ledger"}}}
StoredDatabases ==
    {FreshDatabase, [Started EXCEPT !.handler = FALSE]} \cup LegacyDatabases

\* the rows a stored Gambler_Tally holds: none, or the row of the first user
\* as init_data stores it, without the username column in a legacy file
StoredAccounts(db) ==
    IF "Gambler_Tally" \notin db.tables THEN {EmptyDict}
    ELSE {EmptyDict,
          1 :> (IF db.username
                THEN [name |-> FullName[1], tally |-> [n \in 1..TallyLen |-> 0],
                      balance_cents |-> 0, username |-> Username[1]]
                ELSE [name |-> FullName[1], tally |-> [n \in 1..TallyLen |-> 0],
                      balance_cents |-> 0])}

InitStart ==
    /\ config \in StartConfigs
    /\ store \in StoredDatabases
    /\ accounts \in StoredAccounts(store)
    /\ ledger = <<>>
    /\ last = NoPlay
    /\ call = NoCall
    /\ inflight = NoFlights

\* DbHandler(config) of a process that is started on the database file with
\* the configuration it has read
Startup ==
    /\ ~store.handler
    /\ \E cfg \in StartConfigs : \E r \in {DbHandlerInit(store, accounts)} :
        /\ config' = cfg
        /\ store' = r.store
        /\ accounts' = r.accounts
        /\ last' = [op |-> "startup", id |-> 0, value |-> 0,
                    outcome |-> IF r.error = "none" THEN "returned" ELSE "raised",
                    error |-> r.error, returned |-> r.error = "none",
                    ret |-> r.altered, failed |-> "none"]
        /\ UNCHANGED <<ledger, call, inflight>>

\* DbHandler.__del__: the process ends and the connection is closed
Shutdown ==
    /\ store.handler
    /\ store' = [store EXCEPT !.handler = FALSE]
    /\ last' = Returned("shutdown", 0, 0, "None")
    /\ UNCHANGED <<config, accounts, ledger, call, inflight>>

\* the plays and the commands of a started process
NextStart ==
    \/ Startup
    \/ Shutdown
    \/ store.handler /\ \E id \in Ids, value \in {1, 7}, fail \in AccountFailPoints : Play(id, value, fail)
    \/ store.handler /\ \E id \in Ids : GetData(id, [name |-> FullName[id], username |-> Username[id]])

SpecStart == InitStart /\ [][NextStart]_vars

-----------------------------------------------------------------------------
(* Plays of several processes on one database file. A process handles its
   updates one after the other, and process_slot_machine does not yield, so
   calls overlap only between processes, each with a connection of its own.
   A step is one statement of one process on the file: the SELECT of get_data
   (line 164), the INSERT of init_data (line 148), its commit (line 149),
   BEGIN (line 274), the UPDATE (line 282), the INSERT (line 289), the commit
   (line 291) and the ROLLBACK of the except block (line 295); the statements
   of the other process run between any two of them. The file is in WAL
   mode: a connection reads the committed tables, and one connection writes
   at a time. A connection that has written holds the write lock and its
   writes, uncommitted, until its transaction ends; a write of another
   connection that waits for the lock longer than the timeout raises
   OperationalError ("database is locked"). A transaction that an exception
   has left open stays open on the connection of the process until a later
   call rolls back. *)

\* mutant of StaleRead: the row is read again inside the transaction
FreshRead(frame, conn) == conn.accounts[frame.id]

\* the data of line 245 as the call holds it when its transaction runs
StaleRead(frame, conn) == frame.data

\* the indices of the overlapping plays
ConcurrentPlayValues == {1, 7}

\* another connection holds the write lock
LockedByOther(p) == \E q \in Processes \ {p} : inflight[q].lock

\* the record of a step that has not ended the call
Running(f) ==
    [op |-> "read", id |-> f.id, value |-> f.value, outcome |-> "read",
     error |-> "none", returned |-> FALSE, ret |-> 0, failed |-> "none"]

\* the connection of the frame f: it reads its own tables when it holds the
\* write lock or a snapshot, else the file; a rollback gives the file
ConnectionOf(f) ==
    [accounts |-> IF f.lock \/ f.snap THEN f.view.accounts ELSE accounts,
     ledger |-> IF f.lock \/ f.snap THEN f.view.ledger ELSE ledger,
     begin_accounts |-> accounts, begin_ledger |-> ledger,
     in_transaction |-> f.in_transaction]

\* the frame of process p after a statement: the call is at pc, or has ended
\* ("idle"); the connection is as the statement has left it, conn, with the
\* write lock or without, and stays so after the call
Advance(f, pc, conn, lock) ==
    [(IF pc = "idle" THEN IdleFrame ELSE f) EXCEPT
        !.pc = pc, !.in_transaction = conn.in_transaction,
        !.lock = lock /\ conn.in_transaction,
        !.snap = f.snap /\ ~lock /\ conn.in_transaction,
        !.view = IF conn.in_transaction /\ (lock \/ f.snap)
                 THEN [accounts |-> conn.accounts, ledger |-> conn.ledger]
                 ELSE IdleFrame.view]

InitConcurrent ==
    /\ config \in {c \in Configs : c.bet_cents = 25 /\ c.paytable = Paytable(PyList(DefaultPaytable))}
    /\ accounts = EmptyDict
    /\ ledger = <<>>
    /\ last = NoPlay
    /\ call = NoCall
    /\ store = Started
    /\ inflight = NoFlights

\* lines 242-245 and 164-165 of process p: with dev_mode on the call returns
\* 0, else the SELECT of get_data. Outside a transaction it reads the file;
\* in a transaction left open it reads the snapshot, which the first SELECT
\* of the transaction takes. The call goes on to init_data when there is no
\* row, else to the try block.
SelectAccount(p, id, value) ==
    /\ ~inflight[p].busy
    /\ IF config.dev_mode
       THEN /\ last' = [op |-> "play", id |-> id, value |-> value,
                        outcome |-> "dev_mode", error |-> "none",
                        returned |-> TRUE, ret |-> 0, failed |-> "none"]
            /\ UNCHANGED inflight
       ELSE \E f \in {[inflight[p] EXCEPT !.snap = @ \/ (inflight[p].in_transaction /\ ~inflight[p].lock),
                                          !.view = IF inflight[p].snap \/ inflight[p].lock
                                                   THEN @
                                                   ELSE IF inflight[p].in_transaction
                                                   THEN [accounts |-> accounts, ledger |-> ledger]
                                                   ELSE @]} :
            \E rows \in {ConnectionOf(f).accounts} :
            \E g \in {[f EXCEPT !.busy = TRUE, !.id = id, !.value = value,
                                !.pc = IF id \in DOMAIN rows
                                       THEN "begin" ELSE "init",
                                !.data = IF id \in DOMAIN rows
                                         THEN rows[id] ELSE NoData]} :
               /\ inflight' = [inflight EXCEPT ![p] = g]
               /\ last' = Running(g)
    /\ UNCHANGED <<config, accounts, ledger, call, store>>

\* line 148 of process p, the INSERT of init_data for the id its SELECT has
\* found no row of. The INSERT opens a transaction when the connection has
\* none, and needs the write lock: it raises OperationalError when another
\* connection holds the lock, or when the file has changed since the snapshot
\* of the open transaction. Else it runs on the tables as they are now:
\* another process may have stored the id in between, which raises
\* IntegrityError with the lock taken. An exception leaves
\* process_slot_machine, and the transaction open. The row inserted is not in
\* the file before the commit.
InsertAccount(p) ==
    /\ inflight[p].busy /\ inflight[p].pc = "init"
    /\ \E f \in {inflight[p]} :
       IF \/ LockedByOther(p)
          \/ f.snap /\ f.view # [accounts |-> accounts, ledger |-> ledger]
       THEN /\ inflight' = [inflight EXCEPT ![p] =
                               Advance(f, "idle", ImplicitBegin(ConnectionOf(f)), FALSE)]
            /\ last' = [Running(f) EXCEPT !.op = "play", !.outcome = "raised",
                                          !.error = "OperationalError"]
       ELSE \E g \in {ExecInsertTally(ConnectionOf(f), f.id, FullName[f.id],
                                      Username[f.id])} :
            IF g.error # "none"
            THEN /\ inflight' = [inflight EXCEPT ![p] =
                                    Advance(f, "idle", g.conn, TRUE)]
                 /\ last' = Handled("play", f.id, f.value,
                                    PlayOn(g, f.id, f.value, SLOT_MACHINE_EMOJI,
                                           config.paytable, config.bet_cents,
                                           "none"),
                                    g.error)
            ELSE /\ inflight' = [inflight EXCEPT ![p] =
                                    [Advance(f, "init-commit", g.conn, TRUE)
                                        EXCEPT !.data = g.data]]
                 /\ last' = Running(f)
    /\ UNCHANGED <<config, accounts, ledger, call, store>>

\* line 149 of process p, the commit of init_data: the row is in the file and
\* the write lock is free; the call goes on with the row as its data
CommitAccount(p) ==
    /\ inflight[p].busy /\ inflight[p].pc = "init-commit"
    /\ \E f \in {inflight[p]} :
       \E c \in {Commit(ConnectionOf(f))} :
        /\ accounts' = c.accounts
        /\ ledger' = c.ledger
        /\ inflight' = [inflight EXCEPT ![p] = Advance(f, "begin", c, FALSE)]
        /\ last' = Running(f)
    /\ UNCHANGED <<config, call, store>>

\* lines 247-274 of process p: the tally and the balance are computed from
\* the data read, then BEGIN, which fails on a connection with a transaction
\* open and takes no lock
BeginPlay(p) ==
    /\ inflight[p].busy /\ inflight[p].pc = "begin"
    /\ \E f \in {inflight[p]} :
       \E balance \in {NewBalance(f.data.balance_cents,
                                  payout_mult(config.paytable,
                                              SLOT_MACHINE_VALUE[f.value]),
                                  config.bet_cents)} :
        /\ inflight' = [inflight EXCEPT ![p] =
              IF f.in_transaction
              THEN [f EXCEPT !.pc = "rollback", !.failed = "begin",
                             !.balance = balance]
              ELSE [Advance(f, "update", ExecBegin(ConnectionOf(f)), FALSE)
                       EXCEPT !.balance = balance]]
        /\ last' = Running(f)
    /\ UNCHANGED <<config, accounts, ledger, call, store>>

\* line 282 of process p: the UPDATE fails when another connection holds the
\* write lock; else the connection takes the lock and writes the tally and
\* the balance of the call into the row as the file has it now
UpdateTally(p) ==
    /\ inflight[p].busy /\ inflight[p].pc = "update"
    /\ \E f \in {inflight[p]} :
       IF LockedByOther(p)
       THEN /\ inflight' = [inflight EXCEPT ![p] =
                               [f EXCEPT !.pc = "rollback", !.failed = "update"]]
            /\ last' = Running(f)
       ELSE \E c \in {ConnectionOf(f)} :
            \E data \in {StaleRead(f, c)} :
            /\ Len(ledger) < MaxPlays
            /\ inflight' = [inflight EXCEPT ![p] =
                  Advance(f, "insert",
                          ExecUpdateTally(c, IncrementTally(data.tally,
                                                 ListPos(Len(data.tally), f.value - 1)),
                                          NewBalance(data.balance_cents,
                                                     payout_mult(config.paytable,
                                                                 SLOT_MACHINE_VALUE[f.value]),
                                                     config.bet_cents),
                                          f.id),
                          TRUE)]
            /\ last' = Running(f)
    /\ UNCHANGED <<config, accounts, ledger, call, store>>

\* line 289 of process p: the INSERT of the ledger row, uncommitted, or its
\* failure, after which the call is at the except block; when sqlite has
\* rolled back by itself the writes are dropped and the lock is free
InsertLedger(p, fail) ==
    /\ inflight[p].busy /\ inflight[p].pc = "insert"
    /\ \E f \in {inflight[p]} :
        /\ inflight' = [inflight EXCEPT ![p] =
              IF fail # "none"
              THEN [Advance(f, "rollback", AfterRaise(ConnectionOf(f), fail),
                            f.lock) EXCEPT !.failed = "insert"]
              ELSE Advance(f, "commit",
                           ExecInsertLedger(ConnectionOf(f), f.id,
                                            SLOT_MACHINE_EMOJI, f.value,
                                            config.paytable.serialized,
                                            config.bet_cents),
                           TRUE)]
        /\ last' = Running(f)
    /\ UNCHANGED <<config, accounts, ledger, call, store>>

\* lines 291-292 of process p: the commit, which stores the writes in the
\* file, frees the lock and returns the balance computed; or its failure
CommitPlay(p, fail) ==
    /\ inflight[p].busy /\ inflight[p].pc = "commit"
    /\ \E f \in {inflight[p]} :
       IF fail # "none"
       THEN /\ inflight' = [inflight EXCEPT ![p] =
                               [Advance(f, "rollback",
                                        AfterRaise(ConnectionOf(f), fail), f.lock)
                                   EXCEPT !.failed = "commit"]]
            /\ last' = Running(f)
            /\ UNCHANGED <<accounts, ledger>>
       ELSE \E c \in {Commit(ConnectionOf(f))} :
            /\ accounts' = c.accounts
            /\ ledger' = c.ledger
            /\ inflight' = [inflight EXCEPT ![p] = Advance(f, "idle", c, FALSE)]
            /\ last' = Handled("play", f.id, f.value,
                               [outcome |-> "committed", ret |-> f.balance,
                                failed |-> "none"], "none")
    /\ UNCHANGED <<config, call, store>>

\* lines 294-297 of process p, the except block: the ROLLBACK drops the
\* writes of the connection and frees the lock, and the call returns the
\* balance it has read
RollbackPlay(p) ==
    /\ inflight[p].busy /\ inflight[p].pc = "rollback"
    /\ \E f \in {inflight[p]} :
       \E r \in {[ExceptBlock(ConnectionOf(f), f.data, f.balance) EXCEPT
                     !.failed = f.failed]} :
        /\ inflight' = [inflight EXCEPT ![p] = Advance(f, "idle", r.conn, FALSE)]
        /\ last' = Handled("play", f.id, f.value, r, r.error)
    /\ UNCHANGED <<config, accounts, ledger, call, store>>

NextConcurrent ==
    \/ \E p \in Processes, id \in Ids, value \in ConcurrentPlayValues :
          SelectAccount(p, id, value)
    \/ \E p \in Processes : InsertAccount(p)
    \/ \E p \in Processes : CommitAccount(p)
    \/ \E p \in Processes : BeginPlay(p)
    \/ \E p \in Processes : UpdateTally(p)
    \/ \E p \in Processes, fail \in AccountFailPoints : InsertLedger(p, fail)
    \/ \E p \in Processes, fail \in {"none", "commit", "commit_abort"} : CommitPlay(p, fail)
    \/ \E p \in Processes : RollbackPlay(p)

SpecConcurrent == InitConcurrent /\ [][NextConcurrent]_vars

-----------------------------------------------------------------------------
(* models/paytable.py: Paytable.to_display_string, the text of the paytable
   command. The message is written as the sequence of its lines, that is, the
   text split at its newlines. *)

\* f"{cents / 100:.2f}" of a non-negative whole number of cents
TwoDecimals(cents) ==
    ToString(cents \div 100) \o "." \o
    (IF cents % 100 < 10 THEN "0" ELSE "") \o ToString(cents % 100)

\* [emoji for emoji in combo if emoji != SlotEmoji.ANY]
non_any(combo) == SelectSeq(combo, LAMBDA e : e # "ANY")

\* combo.count(SlotEmoji.ANY)
any_count(combo) == Cardinality({i \in 1..Len(combo) : combo[i] = "ANY"})

\* ''.join([e.value for e in non_any])
RECURSIVE JoinValues(_)
JoinValues(members) ==
    IF Len(members) = 0 THEN ""
    ELSE SlotEmojiValue[Head(members)] \o JoinValues(Tail(members))

\* the text that follows the label: f": x{entry.payout_mult} (${payout_amount})"
PayoutText(entry, bet_cents) ==
    ": x" \o ToString(entry.payout_mult) \o " ($" \o
    TwoDecimals(entry.payout_mult * bet_cents) \o ")"

\* the label of one entry, by the branches of the loop body; non_any[0] of an
\* empty combo and combo[1] of a combo of one wildcard are an IndexError
EntryLabel(entry) ==
    LET combo == entry.combo
        concrete == non_any(combo)
    IN  IF any_count(combo) = 0
        THEN IF Len(concrete) = 0 THEN [error |-> "IndexError", text |-> ""]
             ELSE [error |-> "none",
                   text |-> SlotEmojiValue[concrete[1]] \o
                            SlotEmojiValue[concrete[1]] \o
                            SlotEmojiValue[concrete[1]]]
        ELSE IF any_count(combo) = 2 /\ Len(concrete) = 1
        THEN [error |-> "none", text |-> "Any " \o SlotEmojiValue[concrete[1]]]
        ELSE IF any_count(combo) = 1 /\ Len(combo) < 2
        THEN [error |-> "IndexError", text |-> ""]
        ELSE IF any_count(combo) = 1 /\ combo[1] = combo[2] /\ combo[1] # "ANY"
        THEN [error |-> "none", text |-> "Any two " \o SlotEmojiValue[concrete[1]]]
        ELSE [error |-> "none", text |-> "Any combo of " \o JoinValues(concrete)]

\* Paytable.to_display_string(bet_cents): the heading, one line per entry in
\* the order of the entries, an empty line and the bet amount
to_display_string(paytable, bet_cents) ==
    LET labels == [k \in 1..Len(paytable.entries) |->
                      EntryLabel(paytable.entries[k])]
    IN  IF \E k \in 1..Len(labels) : labels[k].error # "none"
        THEN [error |-> "IndexError", lines |-> <<>>]
        ELSE [error |-> "none",
              lines |-> <<"Payout:">> \o
                        [k \in 1..Len(labels) |->
                            labels[k].text \o
                            PayoutText(paytable.entries[k], bet_cents)] \o
                        <<"", "Bet Amount = $" \o TwoDecimals(bet_cents)>>]

\* the paytables of the paytable command: every pattern of three tokens as the
\* one entry of a paytable, and the two paytables of the plays
RenderTokens == {"e7", "eBar", "eLemon", "eGrape", ""}
RenderPaytables ==
    {Paytable(PyList(<<Entry(a, b, c, m)>>)) :
        a \in RenderTokens, b \in RenderTokens, c \in RenderTokens,
        m \in {80, 1}}
    \cup {Paytable(PyList(DefaultPaytable)), Paytable(PyList(GeneralFirstPaytable))}

InitRender ==
    /\ config \in [dev_mode : {FALSE}, bet_cents : BetAmounts,
                   paytable : RenderPaytables]
    /\ accounts = EmptyDict
    /\ ledger = <<>>
    /\ last = NoPlay
    /\ call = NoCall
    /\ store = Started
    /\ inflight = NoFlights

\* commands.paytable: config.paytable.to_display_string(config.bet_cents)
RenderPaytable ==
    \E r \in {to_display_string(config.paytable, config.bet_cents)} :
        /\ call' = [fn |-> "to_display_string", value |-> config.bet_cents,
                    error |-> r.error, result |-> r.lines]
        /\ UNCHANGED <<config, accounts, ledger, last, store, inflight>>

NextRender == RenderPaytable

SpecRender == InitRender /\ [][NextRender]_vars

-----------------------------------------------------------------------------
(* Properties of play *)

\* the account as play finds it: the stored row, or balance 0 and a zero tally
\* for an id with no row
ZeroTally == [n \in 1..64 |-> 0]
BalanceOf(accts, id) == IF id \in DOMAIN accts THEN accts[id].balance_cents ELSE 0
TallyOf(accts, id) == IF id \in DOMAIN accts THEN accts[id].tally ELSE ZeroTally

\* a step that is a call of play
PlayStep == last'.op = "play"

\* a step that is a call of play or the message handler, which calls play
PlayOrHandler == last'.op \in {"play", "slot_machine_handler"}

\* the id whose account a step may store: the id of the call, and for the stat
\* command in reply to a message the id of the user replied to
LookedUp ==
    IF last'.op = "stat" /\ last'.value.reply_to # NoReply
    THEN last'.value.reply_to ELSE last'.id

\* every row stored before the step is stored unchanged after it
RowsKept == \A i \in DOMAIN accounts : i \in DOMAIN accounts' /\ accounts'[i] = accounts[i]

\* the step stores no new row but possibly the player's, with balance 0 and a
\* zero tally
OnlyProvisions ==
    /\ DOMAIN accounts' \subseteq DOMAIN accounts \cup {last'.id}
    /\ last'.id \in DOMAIN accounts' \ DOMAIN accounts =>
          /\ accounts'[last'.id].balance_cents = 0
          /\ accounts'[last'.id].tally = ZeroTally

\* an entry matches a combination: every position is the wildcard or the
\* combination's symbol
EntryMatches(entry, triple) ==
    /\ Len(entry.combo) = 3
    /\ \A p \in 1..3 : entry.combo[p] = "ANY" \/ entry.combo[p] = upper(triple[p])

\* the multiplier of the first entry, in configured order, that matches; 0 when
\* none does
FirstMatchMultiplier(entries, triple) ==
    IF \E k \in 1..Len(entries) : EntryMatches(entries[k], triple)
    THEN LET k == CHOOSE k \in 1..Len(entries) :
                      /\ EntryMatches(entries[k], triple)
                      /\ \A j \in 1..(k - 1) : ~EntryMatches(entries[j], triple)
         IN  entries[k].payout_mult
    ELSE 0

\* C1: when the UPDATE, the INSERT or the commit of play's transaction fails,
\* with the transaction left open or rolled back by sqlite, then after the
\* call, whether it returns or raises, the balance and the tally of every
\* account are those of before the call (those of a fresh account for an id
\* first seen by this call) and the ledger has no new row.
LedgerAtomicity ==
    [][(PlayStep /\ last'.failed \in {"update", "insert", "commit"}) =>
          /\ ledger' = ledger
          /\ RowsKept
          /\ OnlyProvisions
          /\ BalanceOf(accounts', last'.id) = BalanceOf(accounts, last'.id)
          /\ TallyOf(accounts', last'.id) = TallyOf(accounts, last'.id)]_vars

\* a play has returned after its INSERT failed, the UPDATE executed before it,
\* on an account that holds a balance and a ledger row
LedgerAtomicityWitness ==
    /\ last.op = "play" /\ last.failed = "insert" /\ last.returned
    /\ last.id \in DOMAIN accounts /\ accounts[last.id].balance_cents # 0
    /\ \E n \in 1..Len(ledger) : ledger[n].user_id = last.id

\* C2: a committed play on balance B with bet b and resolved multiplier m
\* stores and returns B - b + m*b, with no floor at zero.
BalanceArithmetic ==
    [][(PlayStep /\ last'.outcome = "committed") =>
          LET B == BalanceOf(accounts, last'.id)
              b == config.bet_cents
              m == FirstMatchMultiplier(config.paytable.entries,
                                        SLOT_MACHINE_VALUE[last'.value])
          IN  /\ last'.returned
              /\ last'.ret = B - b + m * b
              /\ accounts'[last'.id].balance_cents = B - b + m * b]_vars

\* bet 25: a play of multiplier 0 took the balance from 0 to -25, and the play
\* of multiplier 80 after it returned -25 - 25 + 2000
BalanceArithmeticWitness ==
    /\ last.op = "play" /\ last.outcome = "committed" /\ last.value = 64
    /\ config.bet_cents = 25
    /\ Len(ledger) = 2 /\ ledger[1].user_id = last.id /\ ledger[1].value = 7
    /\ last.ret = 1950 /\ accounts[last.id].balance_cents = 1950

\* C3: a play on an outcome index of [1,64] returns a value whichever statement
\* of the transaction fails, BEGIN included.
PlayNeverRaises ==
    (last.op = "play" /\ last.value \in 1..64) => last.returned

\* C4: a play whose transaction fails at the UPDATE, the INSERT or the commit,
\* and is rolled back by the handler or by sqlite, returns the balance read
\* before the transaction.
RollbackReturnsOldBalance ==
    [][(PlayStep /\ last'.failed \in {"update", "insert", "commit"}) =>
          /\ last'.returned
          /\ last'.ret = BalanceOf(accounts, last'.id)]_vars

\* C5: a committed play with outcome index i of [1,64] adds 1 to the tally
\* counter of i (list slot i-1) and leaves the other 63 counters unchanged.
TallyIncrement ==
    [][(PlayStep /\ last'.outcome = "committed" /\ last'.value \in 1..64) =>
          LET old == TallyOf(accounts, last'.id)
              new == accounts'[last'.id].tally
          IN  /\ Len(new) = 64
              /\ new[last'.value] = old[last'.value] + 1
              /\ \A n \in 1..64 : n # last'.value => new[n] = old[n]]_vars

\* the second committed play of index 64 on an account that also played 1
TallyIncrementWitness ==
    /\ last.op = "play" /\ last.outcome = "committed" /\ last.value = 64
    /\ accounts[last.id].tally[64] = 1 /\ accounts[last.id].tally[1] = 1

\* C10: every play with an outcome index outside [1,64] is rejected with an
\* out-of-range error and nothing stored changes.
OutOfRangeRejected ==
    [][(PlayStep /\ last'.value \notin 1..64) =>
          /\ last'.outcome = "raised"
          /\ last'.error \in {"IndexError", "KeyError"}
          /\ \A i \in Ids : /\ BalanceOf(accounts', i) = BalanceOf(accounts, i)
                            /\ TallyOf(accounts', i) = TallyOf(accounts, i)
          /\ ledger' = ledger]_vars

\* the part of C10 that DbHandler.process_slot_machine keeps: with dev_mode
\* off, a play with an outcome index outside [1,64] raises IndexError or
\* KeyError; with dev_mode on it returns 0. Either way no stored balance or
\* tally changes and the ledger has no new row; with dev_mode off an id first
\* seen by the call is stored with balance 0 and a zero tally.
OutOfRangeRejectedUnlessDevMode ==
    [][(PlayStep /\ last'.value \notin 1..64) =>
          /\ ledger' = ledger
          /\ RowsKept
          /\ OnlyProvisions
          /\ IF config.dev_mode
             THEN last'.returned /\ last'.ret = 0 /\ accounts' = accounts
             ELSE /\ last'.outcome = "raised"
                  /\ last'.error \in {"IndexError", "KeyError"}
                  /\ last'.id \in DOMAIN accounts']_vars

-----------------------------------------------------------------------------
(* Properties of the combination space and of the paytable *)

\* the alphabet in its order, numbered 0..3
AlphabetOrder == <<"bar", "grape", "lemon", "seven">>
Alphabet == {AlphabetOrder[n] : n \in 1..4}

\* the key of a triplet in COMBINATIONS
KeyOf(t) == t[1] \o "_" \o t[2] \o "_" \o t[3]

\* C6: the table built at construction is defined on exactly 1..64, maps
\* distinct indices to distinct triplets, covers the cross product of the
\* 4-symbol alphabet, and COMBINATIONS is its inverse; so is every triplet a
\* lookup returns.
Bijection ==
    /\ DOMAIN SLOT_MACHINE_VALUE = 1..64
    /\ Cardinality(Alphabet) = 4
    /\ \A i, j \in DOMAIN SLOT_MACHINE_VALUE :
          i # j => SLOT_MACHINE_VALUE[i] # SLOT_MACHINE_VALUE[j]
    /\ {SLOT_MACHINE_VALUE[i] : i \in DOMAIN SLOT_MACHINE_VALUE}
          = {<<a, b, c>> : a \in Alphabet, b \in Alphabet, c \in Alphabet}
    /\ DOMAIN COMBINATIONS
          = {KeyOf(SLOT_MACHINE_VALUE[i]) : i \in DOMAIN SLOT_MACHINE_VALUE}
    /\ \A i \in DOMAIN SLOT_MACHINE_VALUE :
          COMBINATIONS[KeyOf(SLOT_MACHINE_VALUE[i])] = i
    /\ (call.fn = "SLOT_MACHINE_VALUE" /\ call.error = "none") =>
          /\ call.value \in 1..64
          /\ call.result \in Alphabet \X Alphabet \X Alphabet
          /\ COMBINATIONS[KeyOf(call.result)] = call.value
    /\ (call.fn = "SLOT_MACHINE_VALUE" /\ call.error # "none") =>
          call.value \notin 1..64

\* the lookup of index 43 returned (lemon, lemon, lemon)
BijectionWitness ==
    /\ call.fn = "SLOT_MACHINE_VALUE" /\ call.value = 43
    /\ call.result = <<"lemon", "lemon", "lemon">>
    /\ COMBINATIONS["lemon_lemon_lemon"] = 43

\* C7: the combination (a, b, c), the symbols numbered 0..3 in alphabet order,
\* has index 16a + 4b + c + 1: index 1 is (bar, bar, bar), index 64 is
\* (seven, seven, seven), the third position varies fastest.
IndexOrdering ==
    /\ \A a, b, c \in 0..3 :
          /\ 16 * a + 4 * b + c + 1 \in DOMAIN SLOT_MACHINE_VALUE
          /\ SLOT_MACHINE_VALUE[16 * a + 4 * b + c + 1]
                = <<AlphabetOrder[a + 1], AlphabetOrder[b + 1], AlphabetOrder[c + 1]>>
    /\ SLOT_MACHINE_VALUE[1] = <<"bar", "bar", "bar">>
    /\ SLOT_MACHINE_VALUE[64] = <<"seven", "seven", "seven">>
    /\ (call.fn = "SLOT_MACHINE_VALUE" /\ call.error = "none") =>
          \E a, b, c \in 0..3 :
              /\ call.value = 16 * a + 4 * b + c + 1
              /\ call.result = <<AlphabetOrder[a + 1], AlphabetOrder[b + 1],
                                 AlphabetOrder[c + 1]>>

\* the lookup of index 2 returned (bar, bar, grape): the third position moved
IndexOrderingWitness ==
    /\ call.fn = "SLOT_MACHINE_VALUE" /\ call.value = 2
    /\ call.result = <<"bar", "bar", "grape">>

\* the names of the categories
TripleName ==
    [x \in Alphabet |->
        CASE x = "bar" -> "Triple Bar" [] x = "grape" -> "Triple Grape"
          [] x = "lemon" -> "Triple Lemon" [] x = "seven" -> "Triple Seven"]
Capitalised ==
    [x \in Alphabet |->
        CASE x = "bar" -> "Bar" [] x = "grape" -> "Grape"
          [] x = "lemon" -> "Lemon" [] x = "seven" -> "Seven"]

\* the triplet of an index, by the index ordering
TripletOf(i) ==
    <<AlphabetOrder[((i - 1) \div 16) + 1], AlphabetOrder[(((i - 1) \div 4) % 4) + 1],
      AlphabetOrder[((i - 1) % 4) + 1]>>
BarCount(t) == Cardinality({p \in 1..3 : t[p] = "bar"})

\* the name the category rule gives an index
CategoryOf(i) ==
    LET t == TripletOf(i)
    IN  IF t[1] = t[2] /\ t[2] = t[3] THEN TripleName[t[1]]
        ELSE IF BarCount(t) = 2 THEN "Double Bar"
        ELSE Capitalised[t[1]] \o "-" \o Capitalised[t[2]] \o "-" \o Capitalised[t[3]]

\* C8: over 1..64, get_combo_name returns a Triple name for exactly the 4
\* indices whose symbols are equal, "Double Bar" for exactly the 9 indices with
\* exactly two bars, and the three capitalised names joined by '-' for the
\* other 51.
CategoryPartition ==
    /\ \A i \in 1..64 :
          /\ get_combo_name(i).error = "none"
          /\ get_combo_name(i).name = CategoryOf(i)
    /\ Cardinality({i \in 1..64 : get_combo_name(i).name
                                     \in {TripleName[x] : x \in Alphabet}}) = 4
    /\ Cardinality({i \in 1..64 : get_combo_name(i).name = "Double Bar"}) = 9
    /\ Cardinality({i \in 1..64 :
          LET t == TripletOf(i)
          IN  get_combo_name(i).name
                 = Capitalised[t[1]] \o "-" \o Capitalised[t[2]] \o "-"
                      \o Capitalised[t[3]]}) = 51
    /\ (call.fn = "get_combo_name" /\ call.value \in 1..64) =>
          call.error = "none" /\ call.result = CategoryOf(call.value)

\* the name of index 17, (grape, bar, bar), was looked up: "Double Bar"
CategoryPartitionWitness ==
    /\ call.fn = "get_combo_name" /\ call.value = 17
    /\ call.result = "Double Bar"

\* entry general matches whatever entry specific matches, and is another pattern
StrictGeneralisation(general, specific) ==
    /\ general.combo # specific.combo
    /\ \A p \in 1..3 : general.combo[p] = "ANY" \/ general.combo[p] = specific.combo[p]

\* a call that resolved the multiplier of an index of [1,64]
Resolved == call.fn = "payout_mult" /\ call.value \in 1..64

\* C9: the resolution returns the multiplier of the first entry, in configured
\* order, whose every position is the wildcard or the combination's symbol, and
\* 0 when no entry matches; so of a specific entry and a strict generalisation
\* of it, the one listed first pays a combination that matches both.
FirstMatchWins ==
    Resolved =>
        LET entries == config.paytable.entries
            triple == TripletOf(call.value)
        IN  /\ call.result = FirstMatchMultiplier(entries, triple)
            /\ (\A k \in 1..Len(entries) : ~EntryMatches(entries[k], triple))
                  => call.result = 0
            /\ (/\ Len(entries) = 2
                /\ EntryMatches(entries[1], triple)
                /\ EntryMatches(entries[2], triple)
                /\ \/ StrictGeneralisation(entries[1], entries[2])
                   \/ StrictGeneralisation(entries[2], entries[1]))
                  => call.result = entries[1].payout_mult

\* the wildcard entry is listed before the triple it generalises, and all bar
\* resolved to the wildcard entry's multiplier
FirstMatchWinsWitness ==
    /\ call.fn = "payout_mult" /\ call.value = 1
    /\ config.paytable.serialized
          = json_dumps(<<Entry("eBar", "eBar", "", 1),
                         Entry("eBar", "eBar", "eBar", 40)>>)
    /\ call.result = 1

-----------------------------------------------------------------------------
(* Properties of the failure of lookups and of the construction of paytables *)

\* C11: every lookup that translates an index to a triplet (the table itself,
\* get_combo_name, Paytable.get_payout_multiplier) returns for an index of
\* [1,64] and fails, rather than returning a value or a default, for an index
\* outside [1,64].
OutOfRangeFails ==
    call.fn \in {"SLOT_MACHINE_VALUE", "get_combo_name", "get_payout_multiplier"} =>
        ((call.error = "none") <=> (call.value \in 1..64))

\* C12: the construction of a Paytable from an empty definition fails, and a
\* Paytable that was constructed has at least one entry, whether the definition
\* is a list or a serialized string.
PaytableNonEmpty ==
    call.fn = "Paytable" =>
        /\ Len(DefinitionOf(call.value)) = 0 => call.error # "none"
        /\ call.error = "none" => Len(call.result.entries) >= 1

\* C13: the construction of a Paytable fails when the combo of an entry does
\* not have exactly 3 tokens, and every entry of a Paytable that was constructed
\* has a pattern of length 3.
PatternLengthThree ==
    call.fn = "Paytable" =>
        /\ (\E k \in 1..Len(DefinitionOf(call.value)) :
                Len(DefinitionOf(call.value)[k].combo) # 3) => call.error # "none"
        /\ call.error = "none" =>
              \A k \in 1..Len(call.result.entries) :
                  Len(call.result.entries[k].combo) = 3

-----------------------------------------------------------------------------
(* Properties of the operations on the accounts *)

\* the balances of the stored accounts, each as often as it occurs
BalanceCount(balance) ==
    Cardinality({i \in DOMAIN accounts : accounts[i].balance_cents = balance})

\* the stored balances are 100, 100 and 50
BalancesOfExample ==
    /\ Cardinality(DOMAIN accounts) = 3
    /\ BalanceCount(100) = 2
    /\ BalanceCount(50) = 1

\* the accounts whose balance is strictly greater than that of id
StrictlyAbove(id) ==
    {i \in DOMAIN accounts : accounts[i].balance_cents > accounts[id].balance_cents}

\* C15: get_user_rank returns 0 for an id with no account and otherwise 1 + the
\* number of accounts of strictly greater balance; accounts of equal balance
\* have the same rank, and with the balances 100, 100, 50 the ranks are 1, 1, 3.
RankSemantics ==
    /\ last.op = "get_user_rank" =>
          /\ last.id \notin DOMAIN accounts => last.ret = 0
          /\ last.id \in DOMAIN accounts =>
                /\ last.ret = 1 + Cardinality(StrictlyAbove(last.id))
                /\ BalancesOfExample =>
                      last.ret = IF accounts[last.id].balance_cents = 100 THEN 1 ELSE 3
    /\ \A i, j \in DOMAIN accounts :
          accounts[i].balance_cents = accounts[j].balance_cents =>
              get_user_rank(Connect(accounts, ledger), i)
                  = get_user_rank(Connect(accounts, ledger), j)

\* with the balances 100, 100, 50 the rank of the account of balance 50 was
\* asked and is 3
RankSemanticsWitness ==
    /\ last.op = "get_user_rank" /\ BalancesOfExample
    /\ last.id \in DOMAIN accounts /\ accounts[last.id].balance_cents = 50
    /\ last.ret = 3

\* the ids a leaderboard lists
Listed(rows) == {rows[n].id : n \in 1..Len(rows)}

\* C16: for a limit that is a count (limit >= 0), get_leaderboard returns
\* min(limit, number of accounts) summaries of distinct stored accounts in
\* non-increasing balance order, no account left out has a balance strictly
\* greater than a listed one, and the list is empty when no account is stored.
LeaderboardTopN ==
    (last.op = "get_leaderboard" /\ last.value >= 0) =>
        LET rows == last.ret
            n == Cardinality(DOMAIN accounts)
        IN  /\ Len(rows) = IF last.value < n THEN last.value ELSE n
            /\ \A a, b \in 1..Len(rows) :
                  /\ a < b => rows[a].balance_cents >= rows[b].balance_cents
                  /\ a # b => rows[a].id # rows[b].id
            /\ \A a \in 1..Len(rows) :
                  /\ rows[a].id \in DOMAIN accounts
                  /\ rows[a].balance_cents = accounts[rows[a].id].balance_cents
                  /\ rows[a].name = accounts[rows[a].id].name
                  /\ rows[a].tally = accounts[rows[a].id].tally
            /\ \A i \in DOMAIN accounts \ Listed(rows) :
                  \A a \in 1..Len(rows) :
                      accounts[i].balance_cents <= rows[a].balance_cents
            /\ n = 0 => rows = <<>>

\* with the balances 100, 100, 50 the leaderboard of limit 1 lists one account
\* of balance 100 and leaves the other one out
LeaderboardTopNWitness ==
    /\ last.op = "get_leaderboard" /\ last.value = 1 /\ BalancesOfExample
    /\ Len(last.ret) = 1 /\ last.ret[1].balance_cents = 100
    /\ \E i \in DOMAIN accounts \ Listed(last.ret) : accounts[i].balance_cents = 100

\* C14: get_data on an id with no row stores exactly one new row, with balance
\* 0 and a zero tally, and returns it; get_data on an id with a row returns the
\* stored row and stores nothing, so a further get_data for the same id
\* returns the same balance and tally. No call of get_data touches another row
\* or the ledger.
IdempotentProvisioning ==
    [][last'.op = "get_data" =>
          /\ last'.returned
          /\ ledger' = ledger
          /\ RowsKept
          /\ last'.id \in DOMAIN accounts'
          /\ last'.ret = accounts'[last'.id]
          /\ IF last'.id \notin DOMAIN accounts
             THEN /\ DOMAIN accounts' = DOMAIN accounts \cup {last'.id}
                  /\ Cardinality(DOMAIN accounts') = Cardinality(DOMAIN accounts) + 1
                  /\ last'.ret.balance_cents = 0
                  /\ last'.ret.tally = ZeroTally
                  /\ last'.ret.name = last'.value.name
                  /\ last'.ret.username = last'.value.username
             ELSE accounts' = accounts
          /\ (last.op = "get_data" /\ last.id = last'.id) =>
                /\ accounts' = accounts
                /\ last'.ret.balance_cents = last.ret.balance_cents
                /\ last'.ret.tally = last.ret.tally]_vars

\* with dev_mode on, where only get_data provisions: the first user, stored
\* as "ann", was looked up again under the name "anna"; the stored row came
\* back and is the only one
IdempotentProvisioningWitness ==
    /\ config.dev_mode
    /\ last.op = "get_data" /\ last.id = 1 /\ last.value.name = "anna"
    /\ DOMAIN accounts = {1}
    /\ last.ret.name = "ann" /\ last.ret.balance_cents = 0
    /\ last.ret.tally = ZeroTally

\* C17: update_user_data on an id with a row sets the name and the username
\* of that row and leaves its balance and tally, every other row and the ledger
\* as they were; on an id with no row it stores no row and changes nothing.
RefreshIdentityFrame ==
    [][last'.op = "update_user_data" =>
          /\ ledger' = ledger
          /\ DOMAIN accounts' = DOMAIN accounts
          /\ \A i \in DOMAIN accounts :
                IF i = last'.id
                THEN /\ accounts'[i].name = last'.value.name
                     /\ accounts'[i].username = last'.value.username
                     /\ accounts'[i].balance_cents = accounts[i].balance_cents
                     /\ accounts'[i].tally = accounts[i].tally
                ELSE accounts'[i] = accounts[i]
          /\ last'.id \notin DOMAIN accounts => accounts' = accounts]_vars

\* the first user has played under the name "ann" and then refreshed the
\* identity to "anna" with no username; the second user has no account
RefreshIdentityFrameWitness ==
    /\ last.op = "update_user_data" /\ last.id = 1
    /\ DOMAIN accounts = {1}
    /\ accounts[1].name = "anna" /\ accounts[1].username = NoUsername
    /\ accounts[1].balance_cents # 0 /\ accounts[1].tally[1] = 1
    /\ Len(ledger) = 1

\* C18: with dev_mode on, process_slot_machine returns 0 and stores nothing:
\* no row is added to either table and no row is changed.
SimulationModeFrame ==
    [][(PlayStep /\ config.dev_mode) =>
          /\ last'.returned
          /\ last'.ret = 0
          /\ accounts' = accounts
          /\ ledger' = ledger]_vars

\* with dev_mode on, the second user has played an index of [1,64] and has no
\* account, while the first user has one (from a lookup)
SimulationModeFrameWitness ==
    /\ config.dev_mode
    /\ last.op = "play" /\ last.id = 2 /\ last.value \in 1..64 /\ last.ret = 0
    /\ DOMAIN accounts = {1}
    /\ ledger = <<>>

\* the tally of an account that has played index value once
OnePlayTally(value) == [n \in 1..64 |-> IF n = value THEN 1 ELSE 0]

\* C19: a step stores a new account only when it is a get_data or a play of
\* that id, or a handler that looks the id up or plays it (the message
\* handler, the stat command), and the account starts with balance 0 and a
\* zero tally (after a play that committed: with what that one play made of
\* them); every account stored before a step is stored after it.
AccountLifecycle ==
    [][/\ DOMAIN accounts \subseteq DOMAIN accounts'
       /\ \A i \in DOMAIN accounts' \ DOMAIN accounts :
             /\ last'.op \in {"get_data", "play", "slot_machine_handler", "stat"}
             /\ LookedUp = i
             /\ IF PlayOrHandler /\ last'.outcome = "committed"
                THEN /\ accounts'[i].balance_cents = 0 - config.bet_cents
                            + FirstMatchMultiplier(config.paytable.entries,
                                  SLOT_MACHINE_VALUE[last'.value]) * config.bet_cents
                     /\ accounts'[i].tally = OnePlayTally(last'.value)
                ELSE /\ accounts'[i].balance_cents = 0
                     /\ accounts'[i].tally = ZeroTally]_vars

\* the second user's account was provisioned by a play that was then rejected
\* (index 0), and the first user's account, which has played, is still stored
AccountLifecycleWitness ==
    /\ last.op = "play" /\ last.id = 2 /\ last.outcome = "raised" /\ last.value = 0
    /\ DOMAIN accounts = {1, 2}
    /\ accounts[2].balance_cents = 0 /\ accounts[2].tally = ZeroTally
    /\ accounts[1].tally[1] = 1
    /\ Len(ledger) = 1

\* C20: a play that commits, called directly or by the message handler,
\* appends exactly one row to the ledger, with a transaction id greater than
\* every stored one; every other step leaves the ledger as it was. So the ledger before a step is a prefix of the ledger
\* after it.
LedgerAppendOnly ==
    [][/\ Len(ledger') >= Len(ledger)
       /\ SubSeq(ledger', 1, Len(ledger)) = ledger
       /\ IF PlayOrHandler /\ last'.outcome = "committed"
          THEN /\ Len(ledger') = Len(ledger) + 1
               /\ \A n \in 1..Len(ledger) :
                     ledger'[Len(ledger')].trans_id > ledger[n].trans_id
               /\ ledger'[Len(ledger')].user_id = last'.id
               /\ ledger'[Len(ledger')].value = last'.value
               /\ ledger'[Len(ledger')].bet_cents = config.bet_cents
               /\ ledger'[Len(ledger')].slot_paytable = config.paytable.serialized
          ELSE ledger' = ledger]_vars

\* the second committed play: its row follows the first user's row and has the
\* greater transaction id
LedgerAppendOnlyWitness ==
    /\ last.op = "play" /\ last.outcome = "committed" /\ last.id = 2
    /\ Len(ledger) = 2
    /\ ledger[1].user_id = 1 /\ ledger[2].user_id = 2
    /\ ledger[2].trans_id > ledger[1].trans_id

\* C21: the start of the handler on a stored database (fresh, version 0
\* without the username column, or version 1) completes, Gambler_Tally then
\* has the username column and user_version is 1; the ALTER TABLE of the
\* migration runs exactly when the stored user_version is below 1, so never on
\* a later start.
StartupMigrates ==
    [][last'.op = "startup" =>
          /\ last'.error = "none"
          /\ store'.handler
          /\ "Gambler_Tally" \in store'.tables
          /\ store'.username
          /\ store'.user_version = 1
          /\ last'.ret <=> store.user_version < 1]_vars

\* the part of C21 the code keeps: the start on a file of version 0 without
\* the username column, or of version 1
StartupMigratesStored ==
    [][(last'.op = "startup" /\ "Gambler_Tally" \in store.tables
            /\ (store.username <=> store.user_version = 1)) =>
          /\ last'.error = "none"
          /\ store'.handler
          /\ store'.username
          /\ store'.user_version = 1
          /\ last'.ret <=> store.user_version < 1
          /\ DOMAIN accounts' = DOMAIN accounts]_vars

\* the balance and the tally of the stored row i are the same after the step
SameBalanceAndTally(i) ==
    /\ i \in DOMAIN accounts'
    /\ accounts'[i].balance_cents = accounts[i].balance_cents
    /\ accounts'[i].tally = accounts[i].tally

\* C22: a play, called directly or by the message handler, changes the
\* balance and the tally of no account but its own; get_user_rank,
\* get_leaderboard and get_data on an id that has a row leave every account
\* and the ledger as they were; no operation but a play changes a balance or
\* a tally.
PlayFrame ==
    [][/\ PlayOrHandler =>
              \A i \in DOMAIN accounts \ {last'.id} : SameBalanceAndTally(i)
       /\ (\/ last'.op \in {"get_user_rank", "get_leaderboard"}
           \/ last'.op = "get_data" /\ last'.id \in DOMAIN accounts) =>
              accounts' = accounts /\ ledger' = ledger
       /\ ~PlayOrHandler =>
              \A i \in DOMAIN accounts : SameBalanceAndTally(i)]_vars

\* the second user has played a triple seven, then the first user a triple
\* bar: each row holds its own play only
PlayFrameWitness ==
    /\ last.op = "play" /\ last.id = 1 /\ last.outcome = "committed"
    /\ DOMAIN accounts = {1, 2}
    /\ accounts[1].tally[1] = 1 /\ accounts[1].tally[7] = 0
    /\ accounts[2].tally[7] = 1 /\ accounts[2].tally[1] = 0
    /\ Len(ledger) = 2

\* C23: in every reachable state the tally of every account has exactly 64
\* counters, each a non-negative integer, and no step lowers a counter of a
\* stored account.
TallyShape ==
    /\ [](\A i \in DOMAIN accounts :
            /\ DOMAIN accounts[i].tally = 1..64
            /\ \A n \in 1..64 : accounts[i].tally[n] \in Nat)
    /\ [][\A i \in DOMAIN accounts :
            /\ i \in DOMAIN accounts'
            /\ \A n \in 1..64 :
                  accounts'[i].tally[n] >= accounts[i].tally[n]]_vars

\* the first user has played the indices 1 and 7, the second user has then
\* sent an index outside [1,64]
TallyShapeWitness ==
    /\ last.op = "play" /\ last.id = 2 /\ last.value \notin 1..64
    /\ DOMAIN accounts = {1, 2}
    /\ accounts[1].tally[1] = 1 /\ accounts[1].tally[7] = 1
    /\ accounts[2].tally = ZeroTally

\* the positions of the entry's pattern that hold the wildcard
WildcardPositions(entry) == {i \in 1..Len(entry.combo) : entry.combo[i] = "ANY"}

\* the entry has exactly one wildcard and the symbol x in its two other
\* positions
TwoOf(entry, x) ==
    /\ Len(entry.combo) = 3
    /\ Cardinality(WildcardPositions(entry)) = 1
    /\ x # "ANY"
    /\ \A i \in 1..3 \ WildcardPositions(entry) : entry.combo[i] = x

\* the line of the k-th entry in the text of the paytable command
LineOf(k) == call.result[k + 1]

\* C24: the paytable text labels every entry with exactly one wildcard and the
\* same symbol X in its two other positions "Any two X", whichever position
\* holds the wildcard.
AnyTwoLabel ==
    call.fn = "to_display_string" =>
        /\ call.error = "none"
        /\ \A k \in 1..Len(config.paytable.entries) :
              \A x \in {"SEVEN", "BAR", "LEMON", "GRAPE"} :
                  TwoOf(config.paytable.entries[k], x) =>
                      LineOf(k) = "Any two " \o SlotEmojiValue[x] \o
                                  PayoutText(config.paytable.entries[k], call.value)

\* the part of C24 the code keeps: the wildcard in the third position
AnyTwoLabelThird ==
    call.fn = "to_display_string" =>
        \A k \in 1..Len(config.paytable.entries) :
            \A x \in {"SEVEN", "BAR", "LEMON", "GRAPE"} :
                (TwoOf(config.paytable.entries[k], x)
                    /\ WildcardPositions(config.paytable.entries[k]) = {3}) =>
                    LineOf(k) = "Any two " \o SlotEmojiValue[x] \o
                                PayoutText(config.paytable.entries[k], call.value)

\* the amount of money of a whole number of cents, with two decimals
MoneyUnits(cents) ==
    ToString(cents \div 100) \o "." \o ToString((cents % 100) \div 10) \o
    ToString(cents % 10)

\* C25: the paytable text shows every entry without a wildcard as its three
\* pattern symbols in pattern order, followed by its multiplier and by the
\* payout multiplier x bet amount.
LiteralTriple ==
    call.fn = "to_display_string" =>
        /\ call.error = "none"
        /\ \A k \in 1..Len(config.paytable.entries) :
              LET entry == config.paytable.entries[k]
              IN  WildcardPositions(entry) = {} =>
                      LineOf(k) = SlotEmojiValue[entry.combo[1]] \o
                                  SlotEmojiValue[entry.combo[2]] \o
                                  SlotEmojiValue[entry.combo[3]] \o
                                  ": x" \o ToString(entry.payout_mult) \o
                                  " ($" \o
                                  MoneyUnits(entry.payout_mult * config.bet_cents)
                                  \o ")"

\* the part of C25 the code keeps: the three symbols of the entry are the same
LiteralTripleSame ==
    call.fn = "to_display_string" =>
        \A k \in 1..Len(config.paytable.entries) :
            LET entry == config.paytable.entries[k]
            IN  (WildcardPositions(entry) = {}
                    /\ entry.combo[1] = entry.combo[2]
                    /\ entry.combo[2] = entry.combo[3]) =>
                    LineOf(k) = SlotEmojiValue[entry.combo[1]] \o
                                SlotEmojiValue[entry.combo[2]] \o
                                SlotEmojiValue[entry.combo[3]] \o
                                ": x" \o ToString(entry.payout_mult) \o
                                " ($" \o
                                MoneyUnits(entry.payout_mult * config.bet_cents)
                                \o ")"

\* the row the step has appended to the ledger
NewRow == ledger'[Len(ledger')]

\* C27: the ledger row of a play that commits holds the play's account id, its
\* index, the emoji and the configured bet, and the serialized paytable of the
\* play: a Paytable constructed from the stored text has the entries of the
\* paytable in use and resolves the row's index to the multiplier that the
\* play's balance was computed with.
LedgerRowContent ==
    [][(PlayStep /\ last'.outcome = "committed") =>
          /\ Len(ledger') = Len(ledger) + 1
          /\ NewRow.user_id = last'.id
          /\ NewRow.value = last'.value
          /\ NewRow.emoji = SLOT_MACHINE_EMOJI
          /\ NewRow.bet_cents = config.bet_cents
          /\ NewRow.slot_paytable.type = "str"
          /\ Paytable(NewRow.slot_paytable).error = "none"
          /\ Paytable(NewRow.slot_paytable).entries = config.paytable.entries
          /\ last'.ret =
                BalanceOf(accounts, last'.id) - NewRow.bet_cents
                + NewRow.bet_cents *
                  FirstMatchMultiplier(Paytable(NewRow.slot_paytable).entries,
                                       SLOT_MACHINE_VALUE[NewRow.value])]_vars

\* a play of the index 1 that has won: the row holds a paytable under which the
\* index pays
LedgerRowContentWitness ==
    /\ last.op = "play" /\ last.outcome = "committed" /\ last.value = 1
    /\ last.ret > 0
    /\ Len(ledger) = 1
    /\ ledger[1].value = 1 /\ ledger[1].user_id = last.id
    /\ Len(Paytable(ledger[1].slot_paytable).entries) >= 3

\* what the ledger row n has paid to its account: (the multiplier of the row's
\* index under the row's paytable - 1) x the row's bet
RowNet(n) ==
    (FirstMatchMultiplier(Paytable(ledger[n].slot_paytable).entries,
                          SLOT_MACHINE_VALUE[ledger[n].value]) - 1)
    * ledger[n].bet_cents

\* the sum of RowNet over the rows 1..n of the account id
RECURSIVE AuditSum(_, _)
AuditSum(id, n) ==
    IF n = 0 THEN 0
    ELSE AuditSum(id, n - 1) + (IF ledger[n].user_id = id THEN RowNet(n) ELSE 0)

\* C28: in every state the balance of every account is the sum, over the
\* ledger rows of that account, of (multiplier of the row's index under the
\* row's paytable snapshot - 1) x the row's bet amount.
AuditReconciliation ==
    \A id \in DOMAIN accounts :
        accounts[id].balance_cents = AuditSum(id, Len(ledger))

\* the first user has two rows in the ledger that were written under different
\* bet amounts, one of a play that has won and one of a play that has lost
AuditReconciliationWitness ==
    /\ Len(ledger) = 2
    /\ ledger[1].user_id = 1 /\ ledger[2].user_id = 1
    /\ ledger[1].bet_cents # ledger[2].bet_cents
    /\ RowNet(1) > 0 /\ RowNet(2) < 0
    /\ accounts[1].balance_cents = RowNet(1) + RowNet(2)
    /\ last.op = "play" /\ last.outcome = "rolled_back"

\* the number of ledger rows of the account id with the index i
RowCount(id, i) ==
    Cardinality({n \in 1..Len(ledger) :
                    ledger[n].user_id = id /\ ledger[n].value = i})

\* C29: in every state, for every account and every index i the counter i of
\* the tally is the number of ledger rows with the account's id and the index
\* i, so the sum of the tally is the number of the account's ledger rows; every
\* ledger row belongs to a stored account.
TallyLedgerAgreement ==
    /\ \A id \in DOMAIN accounts :
          \A i \in 1..64 : accounts[id].tally[i] = RowCount(id, i)
    /\ \A n \in 1..Len(ledger) : ledger[n].user_id \in DOMAIN accounts

\* the first user has played the index 1 twice, the second user has an account
\* and no row: a play of theirs has failed
TallyLedgerAgreementWitness ==
    /\ DOMAIN accounts = {1, 2}
    /\ accounts[1].tally[1] = 2 /\ RowCount(1, 1) = 2
    /\ accounts[2].tally = ZeroTally /\ RowCount(2, 1) = 0
    /\ last.op = "play" /\ last.id = 2 /\ last.outcome = "rolled_back"

\* C30: a play on an id without a row whose transaction fails returns 0 and
\* leaves the row that get_data has provisioned: balance 0, zero tally, the
\* ledger as it was and without a row of the id.
ProvisioningSurvivesRollback ==
    [][(PlayStep /\ last'.failed # "none" /\ last'.id \notin DOMAIN accounts) =>
          /\ last'.returned /\ last'.ret = 0
          /\ last'.id \in DOMAIN accounts'
          /\ accounts'[last'.id].balance_cents = 0
          /\ accounts'[last'.id].tally = ZeroTally
          /\ ledger' = ledger
          /\ \A n \in 1..Len(ledger') : ledger'[n].user_id # last'.id
          /\ RowsKept]_vars

\* the process whose call the step has completed with a commit
Committer(p) ==
    /\ inflight[p].busy /\ ~inflight'[p].busy
    /\ last'.op = "play" /\ last'.outcome = "committed"

\* C26: plays of one account that overlap are not serialized. A call that
\* commits appends its ledger row and stores the tally and the balance computed
\* from the row as the call has read it, whatever was committed in between:
\* when two calls have read the account before either commits and both
\* commit, the ledger has both rows, and the account holds the play of the
\* later writer only.
LostUpdate ==
    [][\A p \in Processes : Committer(p) =>
          LET f == inflight[p]
              m == FirstMatchMultiplier(config.paytable.entries,
                                        SLOT_MACHINE_VALUE[f.value])
          IN  /\ Len(ledger') = Len(ledger) + 1
              /\ SubSeq(ledger', 1, Len(ledger)) = ledger
              /\ NewRow.user_id = f.id /\ NewRow.value = f.value
              /\ accounts'[f.id].tally = [f.data.tally EXCEPT ![f.value] = @ + 1]
              /\ accounts'[f.id].balance_cents =
                    f.data.balance_cents + (m - 1) * config.bet_cents]_vars

\* both processes have read the first user's fresh account and have committed:
\* the ledger has the rows of the index 1 and of the index 7, the tally counts
\* the later play only and the balance is that of the later play alone
LostUpdateWitness ==
    /\ last.op = "play" /\ last.outcome = "committed" /\ last.id = 1
    /\ \A p \in Processes : ~inflight[p].busy
    /\ Len(ledger) = 2
    /\ ledger[1].user_id = 1 /\ ledger[1].value = 1
    /\ ledger[2].user_id = 1 /\ ledger[2].value = 7
    /\ accounts[1].tally[7] = 1 /\ accounts[1].tally[1] = 0
    /\ accounts[1].balance_cents = RowNet(2)

\* the four symbol values and the symbol each one stands for
TokenSymbol ==
    ("e7" :> "seven") @@ ("eBar" :> "bar") @@ ("eLemon" :> "lemon")
    @@ ("eGrape" :> "grape")

\* the tokens of the k-th entry as the configuration gives them
TokensOf(k) == DefinitionOf(config.paytable.serialized)[k].combo

\* every position of the tokens is no symbol value, or the value of the
\* combination's symbol at that position
TokensMatch(tokens, triple) ==
    /\ Len(tokens) = 3
    /\ \A i \in 1..3 :
          tokens[i] \notin DOMAIN TokenSymbol \/ TokenSymbol[tokens[i]] = triple[i]

\* C31: a token of a paytable entry that is not one of the four symbol values
\* is loaded as the wildcard (and a symbol value as its symbol); so a position
\* with such a token matches every symbol, the resolution pays an entry exactly
\* on the combinations that agree with its symbol values, and an entry of three
\* such tokens matches all 64 combinations.
UnknownTokenIsWildcard ==
    LET entries == config.paytable.entries
    IN  /\ \A k \in 1..Len(entries) : \A i \in 1..Len(entries[k].combo) :
              IF TokensOf(k)[i] \in DOMAIN TokenSymbol
              THEN entries[k].combo[i] = upper(TokenSymbol[TokensOf(k)[i]])
              ELSE entries[k].combo[i] = "ANY"
        /\ \A k \in 1..Len(entries) :
              (\A i \in 1..Len(TokensOf(k)) : TokensOf(k)[i] \notin DOMAIN TokenSymbol)
                  => \A v \in 1..64 :
                        matches(entries[k], slot_emojis(SLOT_MACHINE_VALUE[v]))
        /\ (Resolved /\ Len(entries) = 1) =>
              call.result = IF TokensMatch(TokensOf(1), TripletOf(call.value))
                            THEN entries[1].payout_mult ELSE 0

\* an entry of a sign, the name of a member and a doubled value has paid the
\* combination of the index 30, whose three symbols are not all equal
UnknownTokenIsWildcardWitness ==
    /\ Resolved /\ call.value = 30
    /\ TokensOf(1) = <<"?", "SEVEN", "e7e7">>
    /\ config.paytable.entries[1].combo = <<"ANY", "ANY", "ANY">>
    /\ Cardinality({TripletOf(30)[i] : i \in 1..3}) > 1
    /\ call.result = 5

\* the accounts with at least one recorded play
Played == {i \in DOMAIN accounts : accounts[i].tally # ZeroTally}

\* C32: the leaderboard command replies that no gambling has taken place only
\* when no account has a recorded play: when an account has a non-zero tally
\* sum the command lists at least one account, and every account it lists has
\* at least one play.
LeaderboardShowsPlayers ==
    last.op = "leaderboard" =>
        /\ last.ret.reply = "No gambling has taken place yet" => Played = {}
        /\ Played # {} => Len(last.ret.listed) >= 1
        /\ \A k \in 1..Len(last.ret.listed) : last.ret.listed[k] \in Played

\* the part of C32 the code keeps: every listed account has a play, without a
\* play in the table the reply is that no gambling has taken place, and with
\* at most 10 rows in the table a play in it is listed
LeaderboardShowsPlayersOfTen ==
    [][last'.op = "leaderboard" =>
          /\ \A k \in 1..Len(last'.ret.listed) : last'.ret.listed[k] \in Played
          /\ Played = {} => last'.ret.reply = "No gambling has taken place yet"
          /\ (Cardinality(DOMAIN accounts) <= 10 /\ Played # {}) =>
                Len(last'.ret.listed) >= 1]_vars

====
